---- MODULE Spec2Model ----
(***************************************************************************)
(* A model of json-schema-go: the seal phase (parser, registry, arena) and *)
(* the evaluator (vm) of the Validator.                                    *)
(*                                                                         *)
(* JSON values are tagged records [k, v]; strings are TLA+ strings, which  *)
(* are sequences of characters, so URIs and JSON Pointers are parsed and   *)
(* rendered character by character.  Numbers are fixed-point integers in   *)
(* units of 1/Unit.  Arena indices are 0-based as in the Go code, stored   *)
(* in 1-based TLA+ sequences (index i lives at position i + 1).            *)
(***************************************************************************)
EXTENDS Integers, Sequences, FiniteSets, TLC

(***************************************************************************)
(* JSON values (encoding/json's dynamic values).                           *)
(***************************************************************************)
JNull == [k |-> "null", v |-> 0]
JBool(b) == [k |-> "bool", v |-> b]
JNum(n) == [k |-> "num", v |-> n]
JStr(s) == [k |-> "str", v |-> s]
JArr(a) == [k |-> "arr", v |-> a]
JObj(o) == [k |-> "obj", v |-> o]

\* The empty map.
NoMembers == [x \in {} |-> JNull]

\* input[key] with the "ok" of a Go map lookup.
Has(o, key) == key \in DOMAIN o

\* The value, once computed, handed to F.
With(value, F(_)) == F(value)

\* Fixed-point numbers: Unit units make 1.0.
Unit == 10000

\* The n-th character of a string.
Ch(s, i) == SubSeq(s, i, i)

(***************************************************************************)
(* net/url: a URL is its text up to the fragment and its fragment.         *)
(***************************************************************************)
URL(base, fragment) == [Base |-> base, Fragment |-> fragment]

\* url.URL{}
EmptyURL == URL("", "")

RECURSIVE IndexOfFrom(_, _, _)
\* The first position >= i of character c in s, or 0.
IndexOfFrom(s, c, i) ==
  IF i > Len(s) THEN 0
  ELSE IF Ch(s, i) = c THEN i
  ELSE IndexOfFrom(s, c, i + 1)

\* url.Parse: splits off the fragment at the first "#"; a text that starts
\* with ":" has no protocol scheme and is an error.
urlParse(str) ==
  LET h == IndexOfFrom(str, "#", 1)
      base == IF h = 0 THEN str ELSE SubSeq(str, 1, h - 1)
      frag == IF h = 0 THEN "" ELSE SubSeq(str, h + 1, Len(str))
  IN  IF Len(base) > 0 /\ Ch(base, 1) = ":"
      THEN [ok |-> FALSE, url |-> EmptyURL]
      ELSE [ok |-> TRUE, url |-> URL(base, frag)]

\* (*URL).Parse: url.Parse followed by ResolveReference against the receiver.
\* An absolute reference replaces the base; a fragment-only reference keeps
\* the base, and keeps the base's fragment too when its own is empty.
urlResolve(baseURI, refStr) ==
  LET r == urlParse(refStr)
  IN  IF ~r.ok THEN r
      ELSE IF r.url.Base # "" THEN r
      ELSE [ok |-> TRUE,
            url |-> URL(baseURI.Base,
                        IF r.url.Fragment = "" THEN baseURI.Fragment
                        ELSE r.url.Fragment)]

(***************************************************************************)
(* json-pointer-go: Ptr{Tokens}, New, String, Eval.                        *)
(***************************************************************************)
RECURSIVE unescapeToken(_)
\* "~1" is "/", "~0" is "~".
unescapeToken(s) ==
  IF Len(s) = 0 THEN ""
  ELSE IF Len(s) >= 2 /\ SubSeq(s, 1, 2) = "~1"
       THEN "/" \o unescapeToken(SubSeq(s, 3, Len(s)))
  ELSE IF Len(s) >= 2 /\ SubSeq(s, 1, 2) = "~0"
       THEN "~" \o unescapeToken(SubSeq(s, 3, Len(s)))
  ELSE Ch(s, 1) \o unescapeToken(SubSeq(s, 2, Len(s)))

RECURSIVE escapeToken(_)
escapeToken(s) ==
  IF Len(s) = 0 THEN ""
  ELSE (IF Ch(s, 1) = "~" THEN "~0"
        ELSE IF Ch(s, 1) = "/" THEN "~1"
        ELSE Ch(s, 1)) \o escapeToken(SubSeq(s, 2, Len(s)))

RECURSIVE splitPointer(_)
\* The tokens of a text that starts with "/".
splitPointer(s) ==
  LET n == IndexOfFrom(s, "/", 2)
  IN  IF n = 0 THEN <<unescapeToken(SubSeq(s, 2, Len(s)))>>
      ELSE <<unescapeToken(SubSeq(s, 2, n - 1))>>
             \o splitPointer(SubSeq(s, n, Len(s)))

\* jsonpointer.New: the empty text is the empty pointer; any other text must
\* start with "/".
ptrNew(s) ==
  IF s = "" THEN [ok |-> TRUE, Tokens |-> <<>>]
  ELSE IF Ch(s, 1) # "/" THEN [ok |-> FALSE, Tokens |-> <<>>]
  ELSE [ok |-> TRUE, Tokens |-> splitPointer(s)]

RECURSIVE ptrString(_)
\* Ptr.String
ptrString(tokens) ==
  IF tokens = <<>> THEN ""
  ELSE "/" \o escapeToken(Head(tokens)) \o ptrString(Tail(tokens))

RECURSIVE IsDigits(_)
IsDigits(s) ==
  \/ Len(s) = 0
  \/ Ch(s, 1) \in {"0", "1", "2", "3", "4", "5", "6", "7", "8", "9"}
     /\ IsDigits(SubSeq(s, 2, Len(s)))

\* strconv: the decimal text of the small indices the model uses.
Digits == <<"0", "1", "2", "3", "4", "5", "6", "7", "8", "9">>

RECURSIVE FormatInt(_)
FormatInt(i) ==
  IF i < 10 THEN Digits[i + 1]
  ELSE FormatInt(i \div 10) \o Digits[(i % 10) + 1]

RECURSIVE Atoi(_)
Atoi(s) ==
  IF Len(s) = 0 THEN 0
  ELSE 10 * Atoi(SubSeq(s, 1, Len(s) - 1))
       + (CHOOSE d \in 0..9 : Digits[d + 1] = Ch(s, Len(s)))

RECURSIVE ptrEval(_, _)
\* Ptr.Eval: walks the tokens through objects (by member) and arrays (by
\* index); anything else is an error.
ptrEval(tokens, doc) ==
  IF tokens = <<>> THEN [ok |-> TRUE, value |-> doc]
  ELSE LET t == Head(tokens)
       IN  IF doc.k = "obj"
           THEN IF Has(doc.v, t) THEN ptrEval(Tail(tokens), doc.v[t])
                ELSE [ok |-> FALSE, value |-> JNull]
           ELSE IF doc.k = "arr"
           THEN IF Len(t) > 0 /\ IsDigits(t) /\ Atoi(t) < Len(doc.v)
                THEN ptrEval(Tail(tokens), doc.v[Atoi(t) + 1])
                ELSE [ok |-> FALSE, value |-> JNull]
           ELSE [ok |-> FALSE, value |-> JNull]

(***************************************************************************)
(* Go map iteration: a range over a map visits its keys in an order the    *)
(* runtime picks.  ord is that order, a sequence of keys; the keys of the  *)
(* map are visited as they come in ord, any key ord lacks after them.      *)
(***************************************************************************)
RECURSIVE SetToSeq(_)
SetToSeq(S) ==
  IF S = {} THEN <<>>
  ELSE LET e == CHOOSE e \in S : TRUE IN <<e>> \o SetToSeq(S \ {e})

InSeq(e, q) == \E i \in 1..Len(q) : q[i] = e

mapRange(m, ord) ==
  SelectSeq(ord, LAMBDA key : key \in DOMAIN m)
    \o SetToSeq({key \in DOMAIN m : ~InSeq(key, ord)})

(***************************************************************************)
(* Compiled schemas (type schema and its keyword structs).                 *)
(***************************************************************************)
\* schemaNot, schemaIf, ...: the keywords that hold one subschema.
UnsetSchema == [IsSet |-> FALSE, Schema |-> 0]
\* schemaAllOf, schemaAnyOf, schemaOneOf.
UnsetSchemas == [IsSet |-> FALSE, Schemas |-> <<>>]
\* schemaMaximum, schemaMaxLength, ...: the keywords that hold a number.
UnsetNumber == [IsSet |-> FALSE, Value |-> 0]

\* schema{}: the zero value a Parse starts from.
ZeroSchema ==
  [Bool |-> [IsSet |-> FALSE, Value |-> FALSE],
   ID |-> EmptyURL,
   Ref |-> [IsSet |-> FALSE, Schema |-> 0, URI |-> EmptyURL,
            BaseURI |-> EmptyURL, Ptr |-> <<>>],
   Not |-> UnsetSchema, If |-> UnsetSchema, Then |-> UnsetSchema,
   Else |-> UnsetSchema,
   Type |-> [IsSet |-> FALSE, IsSingle |-> FALSE, Types |-> <<>>],
   Items |-> [IsSet |-> FALSE, IsSingle |-> FALSE, Schemas |-> <<>>],
   AdditionalItems |-> UnsetSchema,
   Const |-> [IsSet |-> FALSE, Value |-> JNull],
   Enum |-> [IsSet |-> FALSE, Values |-> <<>>],
   MultipleOf |-> UnsetNumber, Maximum |-> UnsetNumber,
   Minimum |-> UnsetNumber, ExclusiveMaximum |-> UnsetNumber,
   ExclusiveMinimum |-> UnsetNumber,
   MaxLength |-> UnsetNumber, MinLength |-> UnsetNumber,
   Pattern |-> [IsSet |-> FALSE, Value |-> ""],
   MaxItems |-> UnsetNumber, MinItems |-> UnsetNumber,
   UniqueItems |-> [IsSet |-> FALSE, Value |-> FALSE],
   Contains |-> UnsetSchema,
   MaxProperties |-> UnsetNumber, MinProperties |-> UnsetNumber,
   Required |-> [IsSet |-> FALSE, Properties |-> <<>>],
   Properties |-> [IsSet |-> FALSE, Schemas |-> NoMembers],
   PatternProperties |-> [IsSet |-> FALSE, Schemas |-> NoMembers],
   AdditionalProperties |-> UnsetSchema,
   Dependencies |-> [IsSet |-> FALSE, Deps |-> NoMembers],
   PropertyNames |-> UnsetSchema,
   AllOf |-> UnsetSchemas, AnyOf |-> UnsetSchemas, OneOf |-> UnsetSchemas]

\* A schemaType.contains that looks at the first of the types only.
typeContainsFirst(t, typ) == Len(t.Types) >= 1 /\ t.Types[1] = typ

\* schemaType.contains
typeContains(t, typ) == \E i \in 1..Len(t.Types) : t.Types[i] = typ

(***************************************************************************)
(* arena and registry.                                                     *)
(***************************************************************************)
\* newRegistry.  Two fields are history the Go struct does not hold: origins
\* tells, for each node of the arena, the position in the input of the document
\* it was compiled from, and rawIndex the position of the document that seal
\* holds in rawSchemas under each base URI.
newRegistry ==
  [schemas |-> NoMembers, arena |-> <<>>, origins |-> <<>>, rawIndex |-> NoMembers]

\* The nodes inserted since origins was last brought up to date are attributed
\* to the document at position doc.
stamp(r, doc) ==
  [r EXCEPT !.origins = @ \o [k \in 1..(Len(r.arena) - Len(@)) |-> doc]]

\* arena.Get: an index outside the slice is a runtime panic.
arenaInRange(r, index) == index >= 0 /\ index < Len(r.arena)

\* registry.GetIndex
GetIndex(r, index) == r.arena[index + 1]

\* registry.Get: the map lookup yields index 0 for an absent key, and the
\* arena is read at that index before ok is looked at.
registryGet(r, uri) ==
  LET ok == uri \in DOMAIN r.schemas
      index == IF ok THEN r.schemas[uri] ELSE 0
  IN  IF arenaInRange(r, index)
      THEN [panic |-> FALSE, ok |-> ok, schema |-> GetIndex(r, index)]
      ELSE [panic |-> TRUE, ok |-> ok, schema |-> ZeroSchema]

\* A registry.Insert that appends the node to the arena before it looks the
\* URI up, so that a node inserted under a registered URI stays in the arena
\* with no URI of its own.
registryInsertAppending(r, uri, s) ==
  IF uri \in DOMAIN r.schemas
  THEN [registry |-> [r EXCEPT !.arena = Append(r.arena, s)],
        index |-> r.schemas[uri]]
  ELSE [registry |-> [r EXCEPT !.schemas = (uri :> Len(r.arena)) @@ r.schemas,
                               !.arena = Append(r.arena, s)],
        index |-> Len(r.arena)]

\* A registry.Insert that puts the new node in the place of the node already
\* registered under the URI.
registryInsertReplace(r, uri, s) ==
  IF uri \in DOMAIN r.schemas
  THEN [registry |-> [r EXCEPT !.arena[r.schemas[uri] + 1] = s],
        index |-> r.schemas[uri]]
  ELSE [registry |-> [r EXCEPT !.schemas = (uri :> Len(r.arena)) @@ r.schemas,
                               !.arena = Append(r.arena, s)],
        index |-> Len(r.arena)]

\* A registry.Insert that lets a later node take over a URI already present.
registryInsertLast(r, uri, s) ==
  [registry |-> [r EXCEPT !.schemas = (uri :> Len(r.arena)) @@ r.schemas,
                          !.arena = Append(r.arena, s)],
   index |-> Len(r.arena)]

\* registry.Insert (with arena.Insert)
registryInsert(r, uri, s) ==
  IF uri \in DOMAIN r.schemas
  THEN [registry |-> r, index |-> r.schemas[uri]]
  ELSE [registry |-> [r EXCEPT !.schemas = (uri :> Len(r.arena)) @@ r.schemas,
                               !.arena = Append(r.arena, s)],
        index |-> Len(r.arena)]

\* A registry.PopulateRefs that sets Ref.Schema on the copy the range loop
\* hands out, and never writes the copy back to the arena.
PopulateRefsCopy(r) ==
  LET unresolved ==
        SelectSeq(r.arena, LAMBDA s : s.Ref.IsSet /\ s.Ref.URI \notin DOMAIN r.schemas)
  IN  [registry |-> r,
       missing |-> [i \in 1..Len(unresolved) |-> unresolved[i].Ref.URI]]

\* registry.PopulateRefs
PopulateRefs(r) ==
  LET resolved(s) == s.Ref.IsSet /\ s.Ref.URI \in DOMAIN r.schemas
      unresolved == SelectSeq(r.arena, LAMBDA s : s.Ref.IsSet /\ ~resolved(s))
  IN  [registry |->
         [r EXCEPT !.arena =
            [i \in 1..Len(r.arena) |->
               IF resolved(r.arena[i])
               THEN [r.arena[i] EXCEPT !.Ref.Schema = r.schemas[r.arena[i].Ref.URI]]
               ELSE r.arena[i]]],
       missing |-> [i \in 1..Len(unresolved) |-> unresolved[i].Ref.URI]]

(***************************************************************************)
(* regexp: the patterns of the model are literals with an optional leading *)
(* "^"; a pattern holding "(" is one RE2 does not compile.                 *)
(***************************************************************************)
regexpCompile(pattern) == IndexOfFrom(pattern, "(", 1) = 0

RECURSIVE FindFrom(_, _, _)
\* Whether lit occurs in str at a position >= i.
FindFrom(str, lit, i) ==
  IF i + Len(lit) - 1 > Len(str) THEN FALSE
  ELSE IF SubSeq(str, i, i + Len(lit) - 1) = lit THEN TRUE
  ELSE FindFrom(str, lit, i + 1)

\* Regexp.MatchString: an unanchored search.
MatchString(pattern, str) ==
  IF Len(pattern) > 0 /\ Ch(pattern, 1) = "^"
  THEN LET lit == SubSeq(pattern, 2, Len(pattern))
       IN  Len(lit) <= Len(str) /\ SubSeq(str, 1, Len(lit)) = lit
  ELSE FindFrom(str, pattern, 1)

(***************************************************************************)
(* math: on fixed-point numbers.                                           *)
(***************************************************************************)
\* const epsilon = 1e-3
epsilon == Unit \div 1000

Abs(n) == IF n < 0 THEN -n ELSE n

\* math.Modf: the integer part (truncated towards zero, as a whole number)
\* and the fractional part, which has the sign of n.
Modf(n) ==
  LET whole == IF n < 0 THEN -((-n) \div Unit) ELSE n \div Unit
  IN  [int |-> whole, frac |-> n - whole * Unit]

\* math.Mod(x, y): the remainder has the sign of x.
Mod(n, m) ==
  IF m = 0 THEN 0
  ELSE IF n < 0 THEN -((-n) % Abs(m)) ELSE n % Abs(m)

\* val == math.Round(val)
IsIntegral(n) == n % Unit = 0

(***************************************************************************)
(* parser.  A parser is [registry, baseURI, tokens].  Parse returns the    *)
(* parser it leaves behind, the index of the schema and the error ("nil"   *)
(* for none); the steps of Parse work on [p, s, err], s being the schema   *)
(* under construction.                                                     *)
(***************************************************************************)
\* parser.URI, were the base URI of the document left out of it.
parserURIEmpty(p) == URL("", ptrString(p.tokens))

\* parser.URI
parserURI(p) == URL(p.baseURI.Base, ptrString(p.tokens))

\* parseJSONType: the seven simple types.
JSONTypes == {"null", "boolean", "number", "integer", "string", "array", "object"}

\* The keywords of Parse, in the order Parse handles them.
ParseKeywords ==
  <<"$id", "$ref", "not", "if", "then", "else", "type", "items", "const",
    "enum", "multipleOf", "maximum", "minimum", "exclusiveMaximum",
    "exclusiveMinimum", "maxLength", "minLength", "pattern",
    "additionalItems", "maxItems", "minItems", "uniqueItems", "contains",
    "maxProperties", "minProperties", "required", "properties",
    "patternProperties", "additionalProperties", "dependencies",
    "propertyNames", "allOf", "anyOf", "oneOf">>

\* The keywords whose value is one subschema, with the field each fills.
SubschemaField ==
  [not |-> "Not", if |-> "If", then |-> "Then", else |-> "Else",
   additionalItems |-> "AdditionalItems", contains |-> "Contains",
   additionalProperties |-> "AdditionalProperties",
   propertyNames |-> "PropertyNames"]

\* The keywords whose value is a list of subschemas.
SubschemasField == [allOf |-> "AllOf", anyOf |-> "AnyOf", oneOf |-> "OneOf"]

\* The keywords whose value is a number.
NumberField ==
  [multipleOf |-> "MultipleOf", maximum |-> "Maximum", minimum |-> "Minimum",
   exclusiveMaximum |-> "ExclusiveMaximum",
   exclusiveMinimum |-> "ExclusiveMinimum"]

\* The keywords whose value is a natural number.
NaturalField ==
  [maxLength |-> "MaxLength", minLength |-> "MinLength",
   maxItems |-> "MaxItems", minItems |-> "MinItems",
   maxProperties |-> "MaxProperties", minProperties |-> "MinProperties"]

RECURSIVE Parse(_, _, _)
RECURSIVE parseAt(_, _, _, _)
RECURSIVE parseList(_, _, _, _, _)
RECURSIVE parseMembers(_, _, _, _, _, _)
RECURSIVE parseDependencies(_, _, _, _, _)
RECURSIVE parseKeyword(_, _, _, _)
RECURSIVE parseKeywordsFrom(_, _, _, _)

\* p.Push(token); p.Parse(value); p.Pop()
parseAt(p, token, value, ord) ==
  With(Parse([p EXCEPT !.tokens = Append(@, token)], value, ord),
       LAMBDA r : [r EXCEPT !.p.tokens = p.tokens])

\* The element-wise loop of items, allOf, anyOf and oneOf, from element i on:
\* each element is parsed under its index as token.
parseList(p, values, ord, i, acc) ==
  IF i > Len(values) THEN [p |-> p, err |-> "nil", indices |-> acc]
  ELSE With(parseAt(p, FormatInt(i - 1), values[i], ord),
            LAMBDA r :
              IF r.err # "nil" THEN [p |-> r.p, err |-> r.err, indices |-> acc]
              ELSE parseList(r.p, values, ord, i + 1, Append(acc, r.index)))

\* The range over the members of properties or patternProperties: keys are
\* the members still to visit.
parseMembers(p, obj, keys, isPattern, ord, acc) ==
  IF keys = <<>> THEN [p |-> p, err |-> "nil", schemas |-> acc]
  ELSE LET key == Head(keys)
       IN  IF isPattern /\ ~regexpCompile(key)
           THEN [p |-> p, err |-> "ErrInvalidSchema", schemas |-> acc]
           ELSE With(parseAt(p, key, obj[key], ord),
                     LAMBDA r :
                       IF r.err # "nil"
                       THEN [p |-> r.p, err |-> r.err, schemas |-> acc]
                       ELSE parseMembers(r.p, obj, Tail(keys), isPattern, ord,
                                         (key :> r.index) @@ acc))

\* Whether every element of a JSON array is a string.
AllStrings(values) == \A i \in 1..Len(values) : values[i].k = "str"

StringsOf(values) == [i \in 1..Len(values) |-> values[i].v]

\* The range over the members of dependencies.
parseDependencies(p, obj, keys, ord, acc) ==
  IF keys = <<>> THEN [p |-> p, err |-> "nil", deps |-> acc]
  ELSE LET key == Head(keys)
           val == obj[key]
       IN  IF val.k = "arr"
           THEN IF ~AllStrings(val.v)
                THEN [p |-> p, err |-> "ErrInvalidSchema", deps |-> acc]
                ELSE parseDependencies(p, obj, Tail(keys), ord,
                       (key :> [IsSchema |-> FALSE, Schema |-> 0,
                                Properties |-> StringsOf(val.v)]) @@ acc)
           ELSE With(parseAt(p, key, val, ord),
                     LAMBDA r :
                       IF r.err # "nil"
                       THEN [p |-> r.p, err |-> r.err, deps |-> acc]
                       ELSE parseDependencies(r.p, obj, Tail(keys), ord,
                              (key :> [IsSchema |-> TRUE, Schema |-> r.index,
                                       Properties |-> <<>>]) @@ acc))

Invalid(st) == [st EXCEPT !.err = "ErrInvalidSchema"]

\* One "value, ok := input[kw]; if ok { ... }" block of Parse, for a keyword
\* the input has.
parseKeyword(st, kw, input, ord) ==
  LET p == st.p
      s == st.s
      value == input[kw]
      under(r) == [r EXCEPT !.p.tokens = p.tokens]
  IN
  CASE kw = "$id" ->
    IF Len(p.tokens) # 0 THEN st
    ELSE IF value.k # "str" THEN Invalid(st)
    ELSE With(urlParse(value.v),
              LAMBDA u :
                IF ~u.ok THEN [st EXCEPT !.err = "$id is not valid URI"]
                ELSE [st EXCEPT !.p.baseURI = u.url, !.s.ID = u.url])
  [] kw = "$ref" ->
    IF value.k # "str" THEN Invalid(st)
    ELSE With(urlResolve(p.baseURI, value.v),
              LAMBDA u :
                IF ~u.ok THEN Invalid(st)
                ELSE With(ptrNew(u.url.Fragment),
                          LAMBDA ptr :
                            IF ~ptr.ok
                            THEN [st EXCEPT !.err =
                                    "$ref fragment is not a valid JSON Pointer"]
                            ELSE [st EXCEPT !.s.Ref =
                                    [IsSet |-> TRUE, Schema |-> 0, URI |-> u.url,
                                     BaseURI |-> URL(u.url.Base, ""),
                                     Ptr |-> ptr.Tokens]]))
  [] kw \in DOMAIN SubschemaField ->
    With(parseAt(p, kw, value, ord),
         LAMBDA r :
           IF r.err # "nil" THEN [st EXCEPT !.p = r.p, !.err = r.err]
           ELSE [st EXCEPT !.p = r.p,
                           !.s[SubschemaField[kw]] =
                             [IsSet |-> TRUE, Schema |-> r.index]])
  [] kw = "type" ->
    IF value.k = "str"
    THEN IF value.v \notin JSONTypes THEN Invalid(st)
         ELSE [st EXCEPT !.s.Type =
                 [IsSet |-> TRUE, IsSingle |-> TRUE, Types |-> <<value.v>>]]
    ELSE IF value.k = "arr"
    THEN IF \E i \in 1..Len(value.v) :
              value.v[i].k # "str" \/ value.v[i].v \notin JSONTypes
         THEN Invalid(st)
         ELSE [st EXCEPT !.s.Type =
                 [IsSet |-> TRUE, IsSingle |-> FALSE,
                  Types |-> StringsOf(value.v)]]
    ELSE Invalid(st)
  [] kw = "items" ->
    IF value.k = "arr"
    THEN With(under(parseList([p EXCEPT !.tokens = Append(@, "items")],
                              value.v, ord, 1, <<>>)),
              LAMBDA r :
                IF r.err # "nil" THEN [st EXCEPT !.p = r.p, !.err = r.err]
                ELSE [st EXCEPT !.p = r.p,
                                !.s.Items = [IsSet |-> TRUE, IsSingle |-> FALSE,
                                             Schemas |-> r.indices]])
    ELSE With(parseAt(p, "items", value, ord),
              LAMBDA r :
                IF r.err # "nil" THEN [st EXCEPT !.p = r.p, !.err = r.err]
                ELSE [st EXCEPT !.p = r.p,
                                !.s.Items = [IsSet |-> TRUE, IsSingle |-> TRUE,
                                             Schemas |-> <<r.index>>]])
  [] kw = "const" ->
    [st EXCEPT !.s.Const = [IsSet |-> TRUE, Value |-> value]]
  [] kw = "enum" ->
    IF value.k # "arr" THEN Invalid(st)
    ELSE [st EXCEPT !.s.Enum = [IsSet |-> TRUE, Values |-> value.v]]
  [] kw \in DOMAIN NumberField ->
    IF value.k # "num" THEN Invalid(st)
    ELSE [st EXCEPT !.s[NumberField[kw]] = [IsSet |-> TRUE, Value |-> value.v]]
  [] kw \in DOMAIN NaturalField ->
    IF value.k # "num" THEN Invalid(st)
    ELSE With(Modf(value.v),
              LAMBDA m :
                IF m.frac > epsilon THEN Invalid(st)
                ELSE IF m.int < 0 THEN Invalid(st)
                ELSE [st EXCEPT !.s[NaturalField[kw]] =
                        [IsSet |-> TRUE, Value |-> m.int]])
  [] kw = "pattern" ->
    IF value.k # "str" THEN Invalid(st)
    ELSE IF ~regexpCompile(value.v) THEN Invalid(st)
    ELSE [st EXCEPT !.s.Pattern = [IsSet |-> TRUE, Value |-> value.v]]
  [] kw = "uniqueItems" ->
    IF value.k # "bool" THEN Invalid(st)
    ELSE [st EXCEPT !.s.UniqueItems = [IsSet |-> TRUE, Value |-> value.v]]
  [] kw = "required" ->
    IF value.k # "arr" THEN Invalid(st)
    ELSE IF ~AllStrings(value.v) THEN Invalid(st)
    ELSE [st EXCEPT !.s.Required =
            [IsSet |-> TRUE, Properties |-> StringsOf(value.v)]]
  [] kw \in {"properties", "patternProperties"} ->
    IF value.k # "obj" THEN Invalid(st)
    ELSE With(under(parseMembers([p EXCEPT !.tokens = Append(@, kw)],
                                 value.v, mapRange(value.v, ord),
                                 kw = "patternProperties", ord, NoMembers)),
              LAMBDA r :
                IF r.err # "nil" THEN [st EXCEPT !.p = r.p, !.err = r.err]
                ELSE [st EXCEPT !.p = r.p,
                                !.s[IF kw = "properties" THEN "Properties"
                                    ELSE "PatternProperties"] =
                                  [IsSet |-> TRUE, Schemas |-> r.schemas]])
  [] kw = "dependencies" ->
    IF value.k # "obj" THEN Invalid(st)
    ELSE With(under(parseDependencies(
                      [p EXCEPT !.tokens = Append(@, "dependencies")],
                      value.v, mapRange(value.v, ord), ord, NoMembers)),
              LAMBDA r :
                IF r.err # "nil" THEN [st EXCEPT !.p = r.p, !.err = r.err]
                ELSE [st EXCEPT !.p = r.p,
                                !.s.Dependencies =
                                  [IsSet |-> TRUE, Deps |-> r.deps]])
  [] kw \in DOMAIN SubschemasField ->
    IF value.k # "arr" THEN Invalid(st)
    ELSE With(under(parseList([p EXCEPT !.tokens = Append(@, kw)],
                              value.v, ord, 1, <<>>)),
              LAMBDA r :
                IF r.err # "nil" THEN [st EXCEPT !.p = r.p, !.err = r.err]
                ELSE [st EXCEPT !.p = r.p,
                                !.s[SubschemasField[kw]] =
                                  [IsSet |-> TRUE, Schemas |-> r.indices]])
  [] OTHER -> st

\* The blocks of Parse one after the other, from the i-th of keywords on;
\* the first error returns.
parseKeywordsFrom(st, input, ord, keywords) ==
  IF keywords = <<>> \/ st.err # "nil" THEN st
  ELSE parseKeywordsFrom(parseKeyword(st, Head(keywords), input, ord),
                         input, ord, Tail(keywords))

\* parser.Parse
Parse(p, input, ord) ==
  LET insert(q, s) ==
        With(registryInsert(q.registry, parserURI(q), s),
             LAMBDA r : [p |-> [q EXCEPT !.registry = r.registry],
                         index |-> r.index, err |-> "nil"])
  IN  IF input.k = "bool"
      THEN insert(p, [ZeroSchema EXCEPT !.Bool = [IsSet |-> TRUE, Value |-> input.v]])
      ELSE IF input.k = "obj"
      THEN With(parseKeywordsFrom(
                  [p |-> p, s |-> ZeroSchema, err |-> "nil"], input.v, ord,
                  SelectSeq(ParseKeywords, LAMBDA kw : Has(input.v, kw))),
                LAMBDA st :
                  IF st.err # "nil" THEN [p |-> st.p, index |-> -1, err |-> st.err]
                  ELSE insert(st.p, st.s))
      ELSE [p |-> p, index |-> -1, err |-> "ErrInvalidSchema"]

\* parseSubSchema: the schema comes back by value, read from the arena at the
\* index Parse returned.
parseSubSchema(registry, baseURI, tokens, input, ord) ==
  With(Parse([registry |-> registry, baseURI |-> baseURI, tokens |-> tokens],
             input, ord),
       LAMBDA r :
         IF r.err # "nil"
         THEN [registry |-> r.p.registry, schema |-> ZeroSchema, err |-> r.err]
         ELSE [registry |-> r.p.registry,
               schema |-> GetIndex(r.p.registry, r.index), err |-> "nil"])

\* parseRootSchema
parseRootSchema(registry, input, ord) ==
  parseSubSchema(registry, EmptyURL, <<>>, input, ord)

(***************************************************************************)
(* Validator.seal.                                                         *)
(***************************************************************************)
\* The most passes of seal's loop the model follows.
MaxPasses == 4

RECURSIVE sealParseRoots(_, _, _, _, _)
\* The first loop of seal, from the i-th schema on: each root is parsed and
\* the raw value recorded under the ID of the schema that came back.
sealParseRoots(registry, rawSchemas, schemas, ord, i) ==
  IF i > Len(schemas)
  THEN [registry |-> registry, rawSchemas |-> rawSchemas, err |-> "nil"]
  ELSE With(parseRootSchema(registry, schemas[i], ord),
            LAMBDA r :
              IF r.err # "nil"
              THEN [registry |-> r.registry, rawSchemas |-> rawSchemas,
                    err |-> r.err]
              ELSE sealParseRoots([stamp(r.registry, i) EXCEPT
                                     !.rawIndex = (r.schema.ID :> i) @@ @],
                                  (r.schema.ID :> schemas[i]) @@ rawSchemas,
                                  schemas, ord, i + 1))

RECURSIVE sealPass(_, _, _, _, _, _)
\* One pass of the inner loop of seal over missingURIs, from the i-th on.
sealPass(registry, rawSchemas, missingURIs, undefinedURIs, ord, i) ==
  IF i > Len(missingURIs)
  THEN [registry |-> registry, undefinedURIs |-> undefinedURIs, err |-> "nil"]
  ELSE LET uri == missingURIs[i]
           baseURI == URL(uri.Base, "")
           fail(e) == [registry |-> registry, undefinedURIs |-> undefinedURIs,
                       err |-> e]
           parsed(ptr, rawRefSchema) ==
             With(parseSubSchema(registry, baseURI, ptr.Tokens, rawRefSchema, ord),
                  LAMBDA r :
                    IF r.err # "nil" THEN fail(r.err)
                    ELSE sealPass(stamp(r.registry, registry.rawIndex[baseURI]),
                                  rawSchemas, missingURIs, undefinedURIs, ord,
                                  i + 1))
           evaluated(ptr) ==
             With(ptrEval(ptr.Tokens, rawSchemas[baseURI]),
                  LAMBDA rawRefSchema :
                    IF ~rawRefSchema.ok THEN fail("jsonpointer.Eval error")
                    ELSE parsed(ptr, rawRefSchema.value))
       IN  IF baseURI \in DOMAIN rawSchemas
           THEN With(ptrNew(uri.Fragment),
                     LAMBDA ptr :
                       IF ~ptr.ok THEN fail("jsonpointer.New error")
                       ELSE evaluated(ptr))
           ELSE sealPass(registry, rawSchemas, missingURIs,
                         Append(undefinedURIs, baseURI), ord, i + 1)

RECURSIVE sealLoop(_, _, _, _, _, _)
\* The outer loop of seal; passes counts the passes made so far.
sealLoop(registry, rawSchemas, missingURIs, undefinedURIs, ord, passes) ==
  IF ~(Len(missingURIs) > 0 /\ Len(undefinedURIs) = 0)
  THEN [registry |-> registry, undefinedURIs |-> undefinedURIs,
        err |-> "nil", passes |-> passes]
  ELSE IF passes = MaxPasses
  THEN [registry |-> registry, undefinedURIs |-> undefinedURIs,
        err |-> "unbounded", passes |-> passes]
  ELSE With(sealPass(registry, rawSchemas, missingURIs, undefinedURIs, ord, 1),
            LAMBDA r :
              IF r.err # "nil"
              THEN [registry |-> r.registry, undefinedURIs |-> r.undefinedURIs,
                    err |-> r.err, passes |-> passes + 1]
              ELSE With(PopulateRefs(r.registry),
                        LAMBDA q :
                          sealLoop(q.registry, rawSchemas, q.missing,
                                   r.undefinedURIs, ord, passes + 1)))

\* Validator.seal: the error, the URIs of an ErrMissingURIs, and the registry
\* that v.registry is left with (the zero registry unless seal succeeded);
\* local is seal's own registry as it stands when seal returns.
seal(schemas, ord) ==
  LET failed(e, uris, local, rawSchemas, passes) ==
        [err |-> e, URIs |-> uris, registry |-> newRegistry, local |-> local,
         rawSchemas |-> rawSchemas, passes |-> passes]
      looped(roots, loop) ==
        IF loop.err # "nil"
        THEN failed(loop.err, <<>>, loop.registry, roots.rawSchemas, loop.passes)
        ELSE IF Len(loop.undefinedURIs) > 0
        THEN failed("ErrMissingURIs", loop.undefinedURIs, loop.registry,
                    roots.rawSchemas, loop.passes)
        ELSE [err |-> "nil", URIs |-> <<>>, registry |-> loop.registry,
              local |-> loop.registry, rawSchemas |-> roots.rawSchemas,
              passes |-> loop.passes]
      populated(roots, first) ==
        With(sealLoop(first.registry, roots.rawSchemas, first.missing, <<>>,
                      ord, 0),
             LAMBDA loop : looped(roots, loop))
  IN  With(sealParseRoots(newRegistry, NoMembers, schemas, ord, 1),
           LAMBDA roots :
             IF roots.err # "nil"
             THEN failed(roots.err, <<>>, roots.registry, roots.rawSchemas, 0)
             ELSE With(PopulateRefs(roots.registry),
                       LAMBDA first : populated(roots, first)))

(***************************************************************************)
(* vm.  A vm is [registry, stack, errors, maxStackDepth, maxErrors] as in  *)
(* the Go struct, with ord, the order in which this evaluation ranges over *)
(* maps.  The operators that can fail return [vm, err]: the vm they leave  *)
(* behind and the error ("nil" for none).                                  *)
(*                                                                         *)
(* Two fields are history the Go struct does not hold: inPseudo counts the *)
(* pseudoExec calls the vm is inside of, and errors.pseudo tells, for each *)
(* entry of errors.errors, whether it was reported inside a pseudoExec.    *)
(***************************************************************************)
\* The number of schema frames at which the model stops following a
\* recursion that the vm itself does not stop.
DepthCap == 5

\* A newVM that leaves maxStackDepth at zero.
newVMNoDepth(registry, maxStackDepth, maxErrors, ord) ==
  [registry |-> registry,
   stack |-> [instance |-> <<>>, schemas |-> <<>>],
   errors |-> [hasErrors |-> FALSE, errors |-> <<>>, pseudo |-> <<>>],
   maxStackDepth |-> 0,
   maxErrors |-> maxErrors,
   ord |-> ord,
   inPseudo |-> 0]

\* newVM
newVM(registry, maxStackDepth, maxErrors, ord) ==
  [registry |-> registry,
   stack |-> [instance |-> <<>>, schemas |-> <<>>],
   errors |-> [hasErrors |-> FALSE, errors |-> <<>>, pseudo |-> <<>>],
   maxStackDepth |-> maxStackDepth,
   maxErrors |-> maxErrors,
   ord |-> ord,
   inPseudo |-> 0]

Ok(vm) == [vm |-> vm, err |-> "nil"]

\* "if err != nil { return err }", and F on the vm otherwise.
Then(r, F(_)) == IF r.err # "nil" THEN [vm |-> r.vm, err |-> r.err] ELSE F(r.vm)

\* A vm.pushNewSchema that also enters the id of the frame in the URI map of
\* the registry.
pushNewSchemaRegistering(vm, id, tokens) ==
  [vm EXCEPT !.stack.schemas = Append(@, [id |-> id, tokens |-> tokens]),
             !.registry.schemas = (URL(id.Base, "/frame") :> 0) @@ @]

pushNewSchema(vm, id, tokens) ==
  [vm EXCEPT !.stack.schemas = Append(@, [id |-> id, tokens |-> tokens])]

\* A vm.popSchema that leaves the frame of the "$ref" on the stack.
popSchemaKeeping(vm) == vm

popSchema(vm) ==
  [vm EXCEPT !.stack.schemas = SubSeq(@, 1, Len(@) - 1)]

pushSchemaToken(vm, token) ==
  [vm EXCEPT !.stack.schemas[Len(vm.stack.schemas)].tokens = Append(@, token)]

popSchemaToken(vm) ==
  [vm EXCEPT !.stack.schemas[Len(vm.stack.schemas)].tokens =
               SubSeq(@, 1, Len(@) - 1)]

pushInstanceToken(vm, token) ==
  [vm EXCEPT !.stack.instance = Append(@, token)]

popInstanceToken(vm) ==
  [vm EXCEPT !.stack.instance = SubSeq(@, 1, Len(@) - 1)]

\* A vm.reportError that stops one error after maxErrors.
reportErrorOneMore(vm) ==
  LET schemaStack == vm.stack.schemas[Len(vm.stack.schemas)]
      reported ==
        [vm EXCEPT !.errors.hasErrors = TRUE,
                   !.errors.errors =
                     Append(@, [InstancePath |-> vm.stack.instance,
                                SchemaPath |-> schemaStack.tokens,
                                URI |-> schemaStack.id]),
                   !.errors.pseudo = Append(@, vm.inPseudo > 0)]
  IN  IF Len(reported.errors.errors) = vm.maxErrors + 1
      THEN [vm |-> reported, err |-> "errMaxErrors"]
      ELSE Ok(reported)

\* A vm.reportError for which a maxErrors of zero stops at the first error.
reportErrorFirst(vm) ==
  LET schemaStack == vm.stack.schemas[Len(vm.stack.schemas)]
      reported ==
        [vm EXCEPT !.errors.hasErrors = TRUE,
                   !.errors.errors =
                     Append(@, [InstancePath |-> vm.stack.instance,
                                SchemaPath |-> schemaStack.tokens,
                                URI |-> schemaStack.id]),
                   !.errors.pseudo = Append(@, vm.inPseudo > 0)]
  IN  IF Len(reported.errors.errors) = vm.maxErrors \/ vm.maxErrors = 0
      THEN [vm |-> reported, err |-> "errMaxErrors"]
      ELSE Ok(reported)

\* vm.reportError
reportError(vm) ==
  LET schemaStack == vm.stack.schemas[Len(vm.stack.schemas)]
      reported ==
        [vm EXCEPT !.errors.hasErrors = TRUE,
                   !.errors.errors =
                     Append(@, [InstancePath |-> vm.stack.instance,
                                SchemaPath |-> schemaStack.tokens,
                                URI |-> schemaStack.id]),
                   !.errors.pseudo = Append(@, vm.inPseudo > 0)]
  IN  IF Len(reported.errors.errors) = vm.maxErrors
      THEN [vm |-> reported, err |-> "errMaxErrors"]
      ELSE Ok(reported)

\* vm.pushSchemaToken(token); vm.reportError(); vm.popSchemaToken()
reportAt(vm, token) ==
  Then(reportError(pushSchemaToken(vm, token)), LAMBDA vm1 : Ok(popSchemaToken(vm1)))

\* The same, when cond holds.
reportIf(cond, vm, token) == IF cond THEN reportAt(vm, token) ELSE Ok(vm)

RECURSIVE execSchema(_, _, _)
RECURSIVE pseudoExec(_, _, _)
RECURSIVE execKeyword(_, _, _, _)
RECURSIVE execKeywordsFrom(_, _, _, _)
RECURSIVE execAllOf(_, _, _, _)
RECURSIVE execAnyOf(_, _, _, _)
RECURSIVE execOneOf(_, _, _, _, _)
RECURSIVE execContains(_, _, _, _)
RECURSIVE execItemsSingle(_, _, _, _)
RECURSIVE execItemsTuple(_, _, _, _)
RECURSIVE execAdditionalItems(_, _, _, _)
RECURSIVE execPatternProperties(_, _, _, _, _, _)
RECURSIVE execMembers(_, _, _, _)
RECURSIVE execDependencies(_, _, _, _)
RECURSIVE execPropertyNames(_, _, _, _)

\* vm.pseudoExec: the error list is set aside and put back only when
\* execSchema returns without error.
pseudoExec(vm, schema, instance) ==
  With(execSchema([vm EXCEPT !.errors = [hasErrors |-> FALSE, errors |-> <<>>,
                                         pseudo |-> <<>>],
                             !.inPseudo = @ + 1],
                  schema, instance),
       LAMBDA r :
         IF r.err # "nil"
         THEN [vm |-> r.vm, err |-> r.err, hasErrors |-> FALSE]
         ELSE [vm |-> [r.vm EXCEPT !.errors = vm.errors, !.inPseudo = @ - 1],
               err |-> "nil", hasErrors |-> r.vm.errors.hasErrors])

\* The loop of allOf, from the i-th subschema on (the "allOf" token is on
\* the stack).
execAllOf(vm, schema, instance, i) ==
  IF i > Len(schema.AllOf.Schemas) THEN Ok(vm)
  ELSE Then(execSchema(pushSchemaToken(vm, FormatInt(i - 1)),
                       GetIndex(vm.registry, schema.AllOf.Schemas[i]), instance),
            LAMBDA vm1 : execAllOf(popSchemaToken(vm1), schema, instance, i + 1))

\* The loop of anyOf, from the i-th subschema on; anyOfOk comes back as ok.
execAnyOf(vm, schema, instance, i) ==
  IF i > Len(schema.AnyOf.Schemas) THEN [vm |-> vm, err |-> "nil", ok |-> FALSE]
  ELSE With(pseudoExec(vm, GetIndex(vm.registry, schema.AnyOf.Schemas[i]),
                       instance),
            LAMBDA r :
              IF r.err # "nil" THEN [vm |-> r.vm, err |-> r.err, ok |-> FALSE]
              ELSE IF ~r.hasErrors THEN [vm |-> r.vm, err |-> "nil", ok |-> TRUE]
              ELSE execAnyOf(r.vm, schema, instance, i + 1))

\* The loop of oneOf, from the i-th subschema on, oneOfOk being its flag.
execOneOf(vm, schema, instance, i, oneOfOk) ==
  IF i > Len(schema.OneOf.Schemas)
  THEN [vm |-> vm, err |-> "nil", ok |-> oneOfOk]
  ELSE With(pseudoExec(vm, GetIndex(vm.registry, schema.OneOf.Schemas[i]),
                       instance),
            LAMBDA r :
              IF r.err # "nil" THEN [vm |-> r.vm, err |-> r.err, ok |-> FALSE]
              ELSE IF ~r.hasErrors
              THEN IF oneOfOk THEN [vm |-> r.vm, err |-> "nil", ok |-> FALSE]
                   ELSE execOneOf(r.vm, schema, instance, i + 1, TRUE)
              ELSE execOneOf(r.vm, schema, instance, i + 1, oneOfOk))

\* The keywords execSchema checks on every instance, in its order.
GenericKeywords ==
  <<"$ref", "not", "if", "const", "enum", "allOf", "anyOf", "oneOf">>

\* The keywords of each branch of the type switch, in its order.
KindKeywords ==
  [null |-> <<"type">>,
   bool |-> <<"type">>,
   num |-> <<"type", "multipleOf", "maximum", "minimum", "exclusiveMaximum",
             "exclusiveMinimum">>,
   str |-> <<"type", "maxLength", "minLength", "pattern">>,
   arr |-> <<"type", "maxItems", "minItems", "uniqueItems", "contains",
             "items">>,
   obj |-> <<"type", "maxProperties", "minProperties", "required", "members",
             "dependencies", "propertyNames">>]

\* The field of schema whose IsSet guards the block of a keyword.
KeywordField ==
  [kw \in {"$ref"} \cup DOMAIN SubschemaField \cup DOMAIN SubschemasField
          \cup DOMAIN NumberField \cup DOMAIN NaturalField |->
     IF kw = "$ref" THEN "Ref"
     ELSE IF kw \in DOMAIN SubschemaField THEN SubschemaField[kw]
     ELSE IF kw \in DOMAIN SubschemasField THEN SubschemasField[kw]
     ELSE IF kw \in DOMAIN NumberField THEN NumberField[kw]
     ELSE NaturalField[kw]]
    @@ [const |-> "Const", enum |-> "Enum", type |-> "Type",
        pattern |-> "Pattern", uniqueItems |-> "UniqueItems",
        items |-> "Items", required |-> "Required",
        dependencies |-> "Dependencies"]

\* Whether the block of a keyword has anything to do for the schema: its
\* field is set (for the range over the members of an object, one of the
\* three fields it reads).
keywordIsSet(schema, kw) ==
  IF kw = "members"
  THEN \/ schema.Properties.IsSet
       \/ schema.PatternProperties.IsSet
       \/ schema.AdditionalProperties.IsSet
  ELSE schema[KeywordField[kw]].IsSet

\* The blocks of execSchema one after the other, for the keywords still to
\* check; the first error returns.
execKeywordsFrom(r, schema, instance, keywords) ==
  IF keywords = <<>> \/ r.err # "nil" THEN r
  ELSE execKeywordsFrom(execKeyword(r.vm, Head(keywords), schema, instance),
                        schema, instance, Tail(keywords))

\* A vm.execSchema for which $ref overrides the keywords beside it.
execSchemaRefOnly(vm, schema, instance) ==
  IF schema.Bool.IsSet
  THEN IF ~schema.Bool.Value THEN reportError(vm) ELSE Ok(vm)
  ELSE execKeywordsFrom(Ok(vm), schema, instance,
                        IF schema.Ref.IsSet THEN <<"$ref">>
                        ELSE SelectSeq(GenericKeywords \o KindKeywords[instance.k],
                                       LAMBDA kw : keywordIsSet(schema, kw)))

\* vm.execSchema
execSchema(vm, schema, instance) ==
  IF schema.Bool.IsSet
  THEN IF ~schema.Bool.Value THEN reportError(vm) ELSE Ok(vm)
  ELSE execKeywordsFrom(Ok(vm), schema, instance,
                        SelectSeq(GenericKeywords \o KindKeywords[instance.k],
                                  LAMBDA kw : keywordIsSet(schema, kw)))

\* The loop of contains, from the i-th element on; containsOk comes back as
\* ok.
execContains(vm, schema, val, i) ==
  IF i > Len(val) THEN [vm |-> vm, err |-> "nil", ok |-> FALSE]
  ELSE With(pseudoExec(vm, GetIndex(vm.registry, schema.Contains.Schema), val[i]),
            LAMBDA r :
              IF r.err # "nil" THEN [vm |-> r.vm, err |-> r.err, ok |-> FALSE]
              ELSE IF ~r.hasErrors THEN [vm |-> r.vm, err |-> "nil", ok |-> TRUE]
              ELSE execContains(r.vm, schema, val, i + 1))

\* The loop of a single items schema, from the i-th element on (the "items"
\* token is on the stack).
execItemsSingle(vm, schema, val, i) ==
  IF i > Len(val) THEN Ok(vm)
  ELSE Then(execSchema(pushInstanceToken(vm, FormatInt(i - 1)),
                       GetIndex(vm.registry, schema.Items.Schemas[1]), val[i]),
            LAMBDA vm1 : execItemsSingle(popInstanceToken(vm1), schema, val, i + 1))

\* The loop of a tuple of items schemas, from the i-th element on.
execItemsTuple(vm, schema, val, i) ==
  IF ~(i <= Len(schema.Items.Schemas) /\ i <= Len(val)) THEN Ok(vm)
  ELSE Then(execSchema(pushSchemaToken(pushInstanceToken(vm, FormatInt(i - 1)),
                                       FormatInt(i - 1)),
                       GetIndex(vm.registry, schema.Items.Schemas[i]), val[i]),
            LAMBDA vm1 : execItemsTuple(popSchemaToken(popInstanceToken(vm1)),
                                        schema, val, i + 1))

\* The loop of additionalItems, from the i-th element on.
execAdditionalItems(vm, schema, val, i) ==
  IF i > Len(val) THEN Ok(vm)
  ELSE Then(execSchema(pushInstanceToken(vm, FormatInt(i - 1)),
                       GetIndex(vm.registry, schema.AdditionalItems.Schema),
                       val[i]),
            LAMBDA vm1 : execAdditionalItems(popInstanceToken(vm1), schema, val,
                                             i + 1))

\* The loop of required or of a dependency's property list, from the i-th
\* name on: one error per name the object lacks.
RECURSIVE execRequired(_, _, _, _)
execRequired(vm, properties, val, i) ==
  IF i > Len(properties) THEN Ok(vm)
  ELSE IF Has(val, properties[i]) THEN execRequired(vm, properties, val, i + 1)
  ELSE Then(reportAt(vm, FormatInt(i - 1)),
            LAMBDA vm1 : execRequired(vm1, properties, val, i + 1))

\* The range over patternProperties for one member; patterns are those still
\* to visit, isAdditional the flag so far, which comes back with the result.
execPatternProperties(vm, schema, key, value, patterns, isAdditional) ==
  IF patterns = <<>>
  THEN [vm |-> vm, err |-> "nil", isAdditional |-> isAdditional]
  ELSE IF ~MatchString(Head(patterns), key)
  THEN execPatternProperties(vm, schema, key, value, Tail(patterns), isAdditional)
  ELSE With(execSchema(
              pushInstanceToken(
                pushSchemaToken(pushSchemaToken(vm, "patternProperties"),
                                Head(patterns)),
                key),
              GetIndex(vm.registry,
                       schema.PatternProperties.Schemas[Head(patterns)]),
              value),
            LAMBDA r :
              IF r.err # "nil"
              THEN [vm |-> r.vm, err |-> r.err, isAdditional |-> FALSE]
              ELSE execPatternProperties(
                     popSchemaToken(popSchemaToken(popInstanceToken(r.vm))),
                     schema, key, value, Tail(patterns), FALSE))

\* The range over the members of the object: keys are those still to visit.
execMembers(vm, schema, val, keys) ==
  IF keys = <<>> THEN Ok(vm)
  ELSE
    LET key == Head(keys)
        value == val[key]
        isProperty == schema.Properties.IsSet /\ Has(schema.Properties.Schemas, key)
        property(vm0) ==
          IF isProperty
          THEN Then(execSchema(
                      pushInstanceToken(
                        pushSchemaToken(pushSchemaToken(vm0, "properties"), key),
                        key),
                      GetIndex(vm.registry, schema.Properties.Schemas[key]),
                      value),
                    LAMBDA vm1 :
                      Ok(popSchemaToken(popSchemaToken(popInstanceToken(vm1)))))
          ELSE Ok(vm0)
        patternProperties(vm0) ==
          IF schema.PatternProperties.IsSet
          THEN execPatternProperties(
                 vm0, schema, key, value,
                 mapRange(schema.PatternProperties.Schemas, vm.ord), ~isProperty)
          ELSE [vm |-> vm0, err |-> "nil", isAdditional |-> ~isProperty]
        additionalProperties(r) ==
          IF schema.AdditionalProperties.IsSet /\ r.isAdditional
          THEN Then(execSchema(
                      pushInstanceToken(
                        pushSchemaToken(r.vm, "additionalProperties"), key),
                      GetIndex(vm.registry, schema.AdditionalProperties.Schema),
                      value),
                    LAMBDA vm1 : Ok(popSchemaToken(popInstanceToken(vm1))))
          ELSE Ok(r.vm)
    IN  Then(property(vm),
             LAMBDA vm1 :
               With(patternProperties(vm1),
                    LAMBDA r2 :
                      IF r2.err # "nil" THEN [vm |-> r2.vm, err |-> r2.err]
                      ELSE Then(additionalProperties(r2),
                                LAMBDA vm3 :
                                  execMembers(vm3, schema, val, Tail(keys)))))

\* The range over dependencies: keys are those still to visit (the
\* "dependencies" token is on the stack).
execDependencies(vm, schema, instance, keys) ==
  IF keys = <<>> THEN Ok(vm)
  ELSE
    LET key == Head(keys)
        dep == schema.Dependencies.Deps[key]
        pushed == pushSchemaToken(vm, key)
    IN  Then(IF ~Has(instance.v, key) THEN Ok(pushed)
             ELSE IF dep.IsSchema
             THEN execSchema(pushed, GetIndex(vm.registry, dep.Schema), instance)
             ELSE execRequired(pushed, dep.Properties, instance.v, 1),
             LAMBDA vm1 : execDependencies(popSchemaToken(vm1), schema, instance,
                                           Tail(keys)))

\* The range of propertyNames over the keys of the object (the
\* "propertyNames" token is on the stack).
execPropertyNames(vm, schema, val, keys) ==
  IF keys = <<>> THEN Ok(vm)
  ELSE Then(execSchema(pushInstanceToken(vm, Head(keys)),
                       GetIndex(vm.registry, schema.PropertyNames.Schema),
                       JStr(Head(keys))),
            LAMBDA vm1 : execPropertyNames(popInstanceToken(vm1), schema, val,
                                           Tail(keys)))

\* vm.pushSchemaToken(token); <loop>; vm.popSchemaToken()
Popped(r) == Then(r, LAMBDA vm1 : Ok(popSchemaToken(vm1)))

\* The instance's kind as a jsonType, for the kinds that have one type.
KindType ==
  [null |-> "null", bool |-> "boolean", str |-> "string", arr |-> "array",
   obj |-> "object"]

\* One "if schema.X.IsSet { ... }" block of execSchema.
execKeyword(vm, kw, schema, instance) ==
  LET val == instance.v
      kind == instance.k
  IN
  CASE kw = "$ref" ->
    IF ~schema.Ref.IsSet THEN Ok(vm)
    ELSE IF Len(vm.stack.schemas) = vm.maxStackDepth
    THEN [vm |-> vm, err |-> "ErrStackOverflow"]
    ELSE IF Len(vm.stack.schemas) >= DepthCap
    THEN [vm |-> vm, err |-> "unbounded"]
    ELSE Then(execSchema(pushNewSchema(vm, schema.Ref.BaseURI, schema.Ref.Ptr),
                         GetIndex(vm.registry, schema.Ref.Schema), instance),
              LAMBDA vm1 : Ok(popSchema(vm1)))
  [] kw = "not" ->
    IF ~schema.Not.IsSet THEN Ok(vm)
    ELSE With(pseudoExec(vm, GetIndex(vm.registry, schema.Not.Schema), instance),
              LAMBDA r :
                IF r.err # "nil" THEN [vm |-> r.vm, err |-> r.err]
                ELSE reportIf(~r.hasErrors, r.vm, "not"))
  [] kw = "if" ->
    IF ~schema.If.IsSet THEN Ok(vm)
    ELSE With(pseudoExec(vm, GetIndex(vm.registry, schema.If.Schema), instance),
              LAMBDA r :
                IF r.err # "nil" THEN [vm |-> r.vm, err |-> r.err]
                ELSE IF ~r.hasErrors
                THEN IF schema.Then.IsSet
                     THEN Popped(execSchema(
                                   pushSchemaToken(r.vm, "then"),
                                   GetIndex(vm.registry, schema.Then.Schema),
                                   instance))
                     ELSE Ok(r.vm)
                ELSE IF schema.Else.IsSet
                     THEN Popped(execSchema(
                                   pushSchemaToken(r.vm, "else"),
                                   GetIndex(vm.registry, schema.Else.Schema),
                                   instance))
                     ELSE Ok(r.vm))
  [] kw = "const" ->
    reportIf(schema.Const.IsSet /\ instance # schema.Const.Value, vm, "const")
  [] kw = "enum" ->
    reportIf(schema.Enum.IsSet
               /\ ~\E i \in 1..Len(schema.Enum.Values) :
                     instance = schema.Enum.Values[i],
             vm, "enum")
  [] kw = "allOf" ->
    IF ~schema.AllOf.IsSet THEN Ok(vm)
    ELSE Popped(execAllOf(pushSchemaToken(vm, "allOf"), schema, instance, 1))
  [] kw = "anyOf" ->
    IF ~schema.AnyOf.IsSet THEN Ok(vm)
    ELSE With(execAnyOf(vm, schema, instance, 1),
              LAMBDA r :
                IF r.err # "nil" THEN [vm |-> r.vm, err |-> r.err]
                ELSE reportIf(~r.ok, r.vm, "anyOf"))
  [] kw = "oneOf" ->
    IF ~schema.OneOf.IsSet THEN Ok(vm)
    ELSE With(execOneOf(vm, schema, instance, 1, FALSE),
              LAMBDA r :
                IF r.err # "nil" THEN [vm |-> r.vm, err |-> r.err]
                ELSE reportIf(~r.ok, r.vm, "oneOf"))
  [] kw = "type" ->
    IF kind = "num"
    THEN LET typeOk == typeContains(schema.Type, "integer") /\ IsIntegral(val)
         IN  reportIf(schema.Type.IsSet /\ ~typeOk
                        /\ ~typeContains(schema.Type, "number"),
                      vm, "type")
    ELSE reportIf(schema.Type.IsSet /\ ~typeContains(schema.Type, KindType[kind]),
                  vm, "type")
  [] kw = "multipleOf" ->
    reportIf(schema.MultipleOf.IsSet
               /\ Abs(Mod(val, schema.MultipleOf.Value)) > epsilon,
             vm, "multipleOf")
  [] kw = "maximum" ->
    reportIf(schema.Maximum.IsSet /\ val > schema.Maximum.Value, vm, "maximum")
  [] kw = "minimum" ->
    reportIf(schema.Minimum.IsSet /\ val < schema.Minimum.Value, vm, "minimum")
  [] kw = "exclusiveMaximum" ->
    reportIf(schema.ExclusiveMaximum.IsSet
               /\ val > schema.ExclusiveMaximum.Value - epsilon,
             vm, "exclusiveMaximum")
  [] kw = "exclusiveMinimum" ->
    reportIf(schema.ExclusiveMinimum.IsSet
               /\ val < schema.ExclusiveMinimum.Value + epsilon,
             vm, "exclusiveMinimum")
  [] kw = "maxLength" ->
    reportIf(schema.MaxLength.IsSet /\ Len(val) > schema.MaxLength.Value,
             vm, "maxLength")
  [] kw = "minLength" ->
    reportIf(schema.MinLength.IsSet /\ Len(val) < schema.MinLength.Value,
             vm, "minLength")
  [] kw = "pattern" ->
    reportIf(schema.Pattern.IsSet /\ ~MatchString(schema.Pattern.Value, val),
             vm, "pattern")
  [] kw = "maxItems" ->
    reportIf(schema.MaxItems.IsSet /\ Len(val) > schema.MaxItems.Value,
             vm, "maxItems")
  [] kw = "minItems" ->
    reportIf(schema.MinItems.IsSet /\ Len(val) < schema.MinItems.Value,
             vm, "minItems")
  [] kw = "uniqueItems" ->
    reportIf(schema.UniqueItems.IsSet /\ schema.UniqueItems.Value
               /\ \E i, j \in 1..Len(val) : i < j /\ val[i] = val[j],
             vm, "uniqueItems")
  [] kw = "contains" ->
    IF ~schema.Contains.IsSet THEN Ok(vm)
    ELSE With(execContains(vm, schema, val, 1),
              LAMBDA r :
                IF r.err # "nil" THEN [vm |-> r.vm, err |-> r.err]
                ELSE reportIf(~r.ok, r.vm, "contains"))
  [] kw = "items" ->
    IF ~schema.Items.IsSet THEN Ok(vm)
    ELSE IF schema.Items.IsSingle
    THEN Popped(execItemsSingle(pushSchemaToken(vm, "items"), schema, val, 1))
    ELSE Then(Popped(execItemsTuple(pushSchemaToken(vm, "items"), schema, val, 1)),
              LAMBDA vm1 :
                IF ~schema.AdditionalItems.IsSet THEN Ok(vm1)
                ELSE Popped(execAdditionalItems(
                              pushSchemaToken(vm1, "additionalItems"), schema, val,
                              Len(schema.Items.Schemas) + 1)))
  [] kw = "maxProperties" ->
    reportIf(schema.MaxProperties.IsSet
               /\ Cardinality(DOMAIN val) > schema.MaxProperties.Value,
             vm, "maxProperties")
  [] kw = "minProperties" ->
    reportIf(schema.MinProperties.IsSet
               /\ Cardinality(DOMAIN val) < schema.MinProperties.Value,
             vm, "minProperties")
  [] kw = "required" ->
    IF ~schema.Required.IsSet THEN Ok(vm)
    ELSE Popped(execRequired(pushSchemaToken(vm, "required"),
                             schema.Required.Properties, val, 1))
  [] kw = "members" ->
    execMembers(vm, schema, val, mapRange(val, vm.ord))
  [] kw = "dependencies" ->
    IF ~schema.Dependencies.IsSet THEN Ok(vm)
    ELSE Popped(execDependencies(pushSchemaToken(vm, "dependencies"), schema,
                                 instance,
                                 mapRange(schema.Dependencies.Deps, vm.ord)))
  [] kw = "propertyNames" ->
    IF ~schema.PropertyNames.IsSet THEN Ok(vm)
    ELSE Popped(execPropertyNames(pushSchemaToken(vm, "propertyNames"), schema,
                                  val, mapRange(val, vm.ord)))
  [] OTHER -> Ok(vm)

\* A vm.Exec that hands errMaxErrors on to its caller.
ExecReturningCap(vm, uri, instance) ==
  LET found(schema) ==
        With(ptrNew(uri.Fragment),
             LAMBDA fragPtr :
               IF ~fragPtr.ok THEN [vm |-> vm, err |-> "jsonpointer.New error"]
               ELSE execSchema(pushNewSchema(vm, uri, fragPtr.Tokens), schema,
                               instance))
  IN  With(registryGet(vm.registry, uri),
           LAMBDA got :
             IF got.panic THEN [vm |-> vm, err |-> "panic"]
             ELSE IF ~got.ok THEN [vm |-> vm, err |-> "ErrNoSuchSchema"]
             ELSE found(got.schema))

\* vm.Exec: the error comes back with the vm; "panic" is the runtime fault
\* of registry.Get on an empty arena.
Exec(vm, uri, instance) ==
  LET run(schema, fragPtr) ==
        With(execSchema(pushNewSchema(vm, uri, fragPtr.Tokens), schema, instance),
             LAMBDA r : IF r.err = "errMaxErrors" THEN Ok(r.vm) ELSE r)
      found(schema) ==
        With(ptrNew(uri.Fragment),
             LAMBDA fragPtr :
               IF ~fragPtr.ok THEN [vm |-> vm, err |-> "jsonpointer.New error"]
               ELSE run(schema, fragPtr))
  IN  With(registryGet(vm.registry, uri),
           LAMBDA got :
             IF got.panic THEN [vm |-> vm, err |-> "panic"]
             ELSE IF ~got.ok THEN [vm |-> vm, err |-> "ErrNoSuchSchema"]
             ELSE found(got.schema))

\* vm.ValidationResult
vmValidationResult(vm) == [Errors |-> vm.errors.errors, Overflowed |-> FALSE]

\* A Validator.ValidateURI that returns the errors of the vm with the error
\* of Exec.
ValidateURIKeeping(v, uri, instance, ord) ==
  With(Exec(newVM(v.registry, v.maxStackDepth, v.maxErrors, ord), uri, instance),
       LAMBDA r :
         [result |-> vmValidationResult(r.vm), err |-> r.err,
          pseudo |-> r.vm.errors.pseudo])

\* Validator.ValidateURI: the result and the error, with the history of the
\* returned errors (pseudo).
ValidateURI(v, uri, instance, ord) ==
  With(Exec(newVM(v.registry, v.maxStackDepth, v.maxErrors, ord), uri, instance),
       LAMBDA r :
         IF r.err # "nil"
         THEN [result |-> [Errors |-> <<>>, Overflowed |-> FALSE], err |-> r.err,
               pseudo |-> <<>>]
         ELSE [result |-> vmValidationResult(r.vm), err |-> "nil",
               pseudo |-> r.vm.errors.pseudo])

\* Validator.Validate
Validate(v, instance, ord) == ValidateURI(v, EmptyURL, instance, ord)

\* ValidationResult.IsValid
IsValid(result) == Len(result.Errors) = 0

(***************************************************************************)
(* The documents and instances the model runs on, in the style of the      *)
(* repository's tests.                                                    *)
(***************************************************************************)
Obj1(k, val) == JObj(k :> val)
Obj2(k1, v1, k2, v2) == JObj(k1 :> v1 @@ k2 :> v2)
OfType(t) == Obj1("type", JStr(t))
RefTo(uri) == Obj1("$ref", JStr(uri))
Whole(n) == JNum(n * Unit)

TypeNull == OfType("null")
TypeBoolean == OfType("boolean")
NotNull == Obj1("not", TypeNull)
AnyOfDoc == Obj1("anyOf", JArr(<<TypeNull, OfType("string")>>))
OneOfDoc == Obj1("oneOf", JArr(<<TypeNull, Obj1("const", JNull)>>))
IfDoc == JObj("if" :> TypeNull @@ "then" :> TypeBoolean @@ "else" :> OfType("string"))
ContainsDoc == Obj1("contains", TypeNull)
\* "then" and "else" with no "if" beside them.
ThenElse == Obj2("then", TypeBoolean, "else", OfType("string"))
Loop == RefTo("#")
AllOfLoop == Obj1("allOf", JArr(<<TypeNull, RefTo("#")>>))
NotLoop == Obj1("not", RefTo("#"))
IfLoop == Obj2("if", RefTo("#"), "then", TypeNull)
AnyOfLoop == Obj1("anyOf", JArr(<<RefTo("#"), TypeNull>>))
OneOfLoop == Obj1("oneOf", JArr(<<RefTo("#"), TypeNull>>))
ContainsLoop == Obj1("contains", RefTo("#"))
\* A "$ref" whose fragment names a member by a token that Ptr.String writes
\* differently from how it was read ("~" alone is written "~0").
Tilde == Obj2("$ref", JStr("#/a~"), "a~", JBool(TRUE))
Props == Obj1("properties", Obj2("a", TypeNull, "b", TypeNull))
PatProps == Obj1("patternProperties", Obj2("a", TypeNull, "b", TypeBoolean))
\* The values given to the keywords that take a natural number: 1, 2.0005,
\* 2.5, -2 and -0.5.
NaturalValues ==
  {Unit, 2 * Unit + Unit \div 2000, 2 * Unit + Unit \div 2, -(2 * Unit), -(Unit \div 2)}
\* {kw: n}
Natural(kw, n) == Obj1(kw, JNum(n))
\* Two dependencies, one a schema and one a list of names.
Deps == Obj1("dependencies", Obj2("a", TypeNull, "b", JArr(<<JStr("c")>>)))
\* Two properties, one of them a "$ref" back to the root.
PropsLoop == Obj1("properties", Obj2("a", TypeNull, "b", RefTo("#")))
RefFoo == RefTo("urn:example:foo")
Foo == Obj2("$id", JStr("urn:example:foo"), "$ref", JStr("urn:example:bar"))
Bar == Obj2("$id", JStr("urn:example:bar"), "type", JStr("null"))
RefBarBoolean == Obj2("$ref", JStr("urn:example:bar"), "type", JStr("boolean"))
FooBar == Obj2("foobar", Obj1("baz", TypeNull), "$ref", JStr("#/foobar/baz"))
NonExistent ==
  Obj2("$ref", JStr("http://example.com/1"),
       "items", JArr(<<RefTo("http://example.com/2"), RefTo("http://example.com/3"),
                       RefTo("http://example.com/4#/fragment")>>))
Twice == Obj1("allOf", JArr(<<RefTo("urn:x"), RefTo("urn:x#/a")>>))
Discovered ==
  Obj2("allOf", JArr(<<RefTo("#/defs/a"), RefTo("urn:x")>>),
       "defs", Obj1("a", RefTo("urn:y")))
BadID == Obj1("$id", JStr(":bad"))
BadFragment == RefTo("#nope")
BadPointer == RefTo("#/nope")
BadType == Obj1("type", Whole(3))
FirstDefs == Obj2("$ref", JStr("#/defs/x"), "defs", Obj1("x", TypeNull))
LastDefs == Obj1("defs", Obj1("x", TypeBoolean))

\* A scenario: the schemas handed to NewValidator, the instances validated,
\* the URIs handed to ValidateURI, and the map keys whose iteration order
\* matters.
Scenario(schemas, instances, uris, keys) ==
  [schemas |-> schemas, instances |-> instances, uris |-> uris, keys |-> keys]

Scalars == <<JNull, JBool(TRUE), JStr("a")>>

\* One instance or more of each kind of JSON value: 3 and 3.5 for numbers.
Kinds ==
  <<JNull, JBool(TRUE), Whole(3), JNum(3 * Unit + Unit \div 2), JStr("a"), JArr(<<>>),
    JArr(<<JNull>>), JObj(NoMembers)>>

\* {"type": [t1, t2]}
OfTypes(ts) == Obj1("type", JArr([i \in 1..Len(ts) |-> JStr(ts[i])]))
NoURI == URL("urn:none", "")

Scenarios ==
  << Scenario(<<>>, <<JNull>>, <<NoURI>>, <<>>),
     Scenario(<<TypeNull>>, Scalars, <<NoURI>>, <<>>),
     Scenario(<<NotNull>>, Scalars, <<>>, <<>>),
     Scenario(<<AnyOfDoc>>, Scalars, <<>>, <<>>),
     Scenario(<<OneOfDoc>>, Scalars, <<>>, <<>>),
     Scenario(<<IfDoc>>, Scalars, <<>>, <<>>),
     Scenario(<<ContainsDoc>>,
              <<JArr(<<JBool(TRUE), JNull>>), JArr(<<JBool(TRUE)>>), JArr(<<>>)>>,
              <<>>, <<>>),
     Scenario(<<Loop>>, <<JNull>>, <<>>, <<>>),
     Scenario(<<AllOfLoop>>, Scalars, <<>>, <<>>),
     Scenario(<<NotLoop>>, <<JNull>>, <<>>, <<>>),
     Scenario(<<Props>>,
              <<JObj("a" :> Whole(1) @@ "b" :> Whole(2)), JObj("a" :> JNull @@ "b" :> Whole(2)),
                JObj(NoMembers)>>,
              <<>>, <<"a", "b">>),
     Scenario(<<PatProps>>, <<Obj1("ab", Whole(1)), Obj1("a", JNull)>>, <<>>,
              <<"a", "b">>),
     Scenario(<<RefFoo, Foo, Bar>>, <<JNull, JBool(TRUE)>>,
              <<URL("urn:example:bar", ""), NoURI>>, <<>>),
     Scenario(<<Foo, Bar>>, <<JNull, JBool(TRUE)>>, <<URL("urn:example:foo", "")>>,
              <<>>),
     Scenario(<<FooBar>>, <<JNull, JBool(TRUE)>>, <<URL("", "/foobar/baz")>>, <<>>),
     Scenario(<<NonExistent>>, <<>>, <<>>, <<>>),
     Scenario(<<Twice>>, <<>>, <<>>, <<>>),
     Scenario(<<Discovered>>, <<>>, <<>>, <<>>),
     Scenario(<<BadID>>, <<>>, <<>>, <<>>),
     Scenario(<<BadFragment>>, <<>>, <<>>, <<>>),
     Scenario(<<BadPointer>>, <<>>, <<>>, <<>>),
     Scenario(<<TypeNull, BadType>>, <<>>, <<>>, <<>>),
     Scenario(<<TypeNull, TypeBoolean>>, <<JNull, JBool(TRUE)>>, <<>>, <<>>),
     Scenario(<<Bar, TypeBoolean, Foo, TypeNull>>, <<JNull, JBool(TRUE)>>, <<>>, <<>>),
     Scenario(<<FirstDefs, LastDefs>>, <<JNull, JBool(TRUE)>>, <<>>, <<>>),
     Scenario(<<Bar>>, <<JNull, JBool(TRUE)>>, <<URL("urn:example:bar", "")>>, <<>>),
     Scenario(<<RefBarBoolean, Bar>>, Scalars, <<>>, <<>>),
     Scenario(<<OfType("integer")>>, Kinds, <<>>, <<>>),
     Scenario(<<OfType("number")>>, Kinds, <<>>, <<>>),
     Scenario(<<OfType("array")>>, Kinds, <<>>, <<>>),
     Scenario(<<OfTypes(<<"integer", "string">>)>>, Kinds, <<>>, <<>>),
     Scenario(<<OfTypes(<<"object", "null", "boolean">>)>>, Kinds, <<>>, <<>>),
     Scenario(<<OfTypes(<<>>)>>, Kinds, <<>>, <<>>),
     Scenario(<<IfLoop>>, <<JNull, JBool(TRUE)>>, <<>>, <<>>),
     Scenario(<<AnyOfLoop>>, <<JNull, JBool(TRUE)>>, <<>>, <<>>),
     Scenario(<<OneOfLoop>>, <<JNull, JBool(TRUE)>>, <<>>, <<>>),
     Scenario(<<ContainsLoop>>,
              <<JNull, JArr(<<>>), JArr(<<JArr(<<JArr(<<>>)>>)>>),
                JArr(<<JNull, JArr(<<JNull>>)>>)>>,
              <<>>, <<>>),
     Scenario(<<Tilde>>, <<JNull>>, <<>>, <<>>),
     Scenario(<<Deps>>,
              <<JObj("a" :> Whole(1) @@ "b" :> Whole(2)), Obj1("b", Whole(2))>>,
              <<>>, <<"a", "b">>),
     Scenario(<<ThenElse>>, Scalars, <<>>, <<>>),
     Scenario(<<Natural("maxLength", 2 * Unit + Unit \div 2000)>>,
              <<JStr("a"), JStr("abc")>>, <<>>, <<>>),
     Scenario(<<Natural("minLength", -(Unit \div 2))>>, <<JStr(""), JStr("a")>>,
              <<>>, <<>>),
     Scenario(<<Natural("maxItems", -(2 * Unit))>>, <<JArr(<<>>)>>, <<>>, <<>>),
     Scenario(<<Natural("minItems", 2 * Unit + Unit \div 2)>>, <<JArr(<<>>)>>,
              <<>>, <<>>),
     Scenario(<<Natural("maxProperties", -(Unit \div 2))>>,
              <<JObj(NoMembers), Obj1("a", JNull)>>, <<>>, <<>>),
     Scenario(<<Natural("minProperties", Unit)>>,
              <<JObj(NoMembers), Obj1("a", JNull)>>, <<>>, <<>>),
     Scenario(<<PropsLoop>>,
              <<JObj("a" :> Whole(1) @@ "b" :> JObj(NoMembers)),
                JObj("a" :> Whole(1) @@ "b" :> Obj1("a", Whole(2)))>>,
              <<>>, <<"a", "b">>) >>

\* The orders in which a map with these keys may be ranged over.
Orders(keys) ==
  LET n == Len(keys)
      perms == {q \in [1..n -> 1..n] : \A i, j \in 1..n : i # j => q[i] # q[j]}
  IN  {[i \in 1..n |-> keys[q[i]]] : q \in perms}

\* The greatest MaxStackDepth and MaxErrors of a ValidatorConfig.
MaxStackDepth == 3
MaxErrors == 2

(***************************************************************************)
(* The state: the scenario and the Validator built from it (v, with what   *)
(* seal returned in sealed), the last call of Validate or ValidateURI      *)
(* (call) and what it returned (res), and what the same call returned the  *)
(* time before (prev) when the last call was a repetition.                 *)
(***************************************************************************)
VARIABLES scenario, v, sealed, call, res, prev

vars == <<scenario, v, sealed, call, res, prev>>

NoCall == [uri |-> EmptyURL, instance |-> 0, ord |-> <<>>]
NoResult ==
  [result |-> [Errors |-> <<>>, Overflowed |-> FALSE], err |-> "none", pseudo |-> <<>>]

Init ==
  /\ scenario = 0
  /\ v = [registry |-> newRegistry, maxStackDepth |-> 0, maxErrors |-> 0]
  /\ sealed = [err |-> "none", URIs |-> <<>>, local |-> newRegistry, passes |-> 0]
  /\ call = NoCall
  /\ res = NoResult
  /\ prev = NoResult

\* The scenario of the Validator, once there is one.
Current == Scenarios[scenario]

\* NewValidatorWithConfig(config, schemas)
NewValidatorWithConfig(s, maxStackDepth, maxErrors, ord) ==
  /\ scenario = 0
  /\ LET r == seal(Scenarios[s].schemas, ord)
     IN  /\ scenario' = s
         /\ v' = [registry |-> r.registry, maxStackDepth |-> maxStackDepth,
                  maxErrors |-> maxErrors]
         /\ sealed' = [err |-> r.err, URIs |-> r.URIs, local |-> r.local,
                       passes |-> r.passes]
  /\ UNCHANGED <<call, res, prev>>

\* v.Validate(instance), on a Validator whose construction returned no error.
CallValidate(i, ord) ==
  /\ sealed.err = "nil"
  /\ call' = [uri |-> EmptyURL, instance |-> i, ord |-> ord]
  /\ res' = Validate(v, Current.instances[i], ord)
  /\ prev' = NoResult
  /\ UNCHANGED <<scenario, v, sealed>>

\* v.ValidateURI(uri, instance)
CallValidateURI(uri, i, ord) ==
  /\ sealed.err = "nil"
  /\ call' = [uri |-> uri, instance |-> i, ord |-> ord]
  /\ res' = ValidateURI(v, uri, Current.instances[i], ord)
  /\ prev' = NoResult
  /\ UNCHANGED <<scenario, v, sealed>>

\* The last call is made once more; its maps may be ranged over in another
\* order.
Repeat(ord) ==
  /\ res.err # "none"
  /\ call' = [call EXCEPT !.ord = ord]
  /\ res' = ValidateURI(v, call.uri, Current.instances[call.instance], ord)
  /\ prev' = res
  /\ UNCHANGED <<scenario, v, sealed>>

Next ==
  \/ \E s \in 1..Len(Scenarios), d \in 0..MaxStackDepth, e \in 0..MaxErrors :
       \E ord \in Orders(Scenarios[s].keys) : NewValidatorWithConfig(s, d, e, ord)
  \/ /\ scenario # 0
     /\ \E i \in 1..Len(Current.instances), ord \in Orders(Current.keys) :
          CallValidate(i, ord)
  \/ /\ scenario # 0
     /\ \E i \in 1..Len(Current.instances), k \in 1..Len(Current.uris) :
          \E ord \in Orders(Current.keys) : CallValidateURI(Current.uris[k], i, ord)
  \/ /\ scenario # 0
     /\ \E ord \in Orders(Current.keys) : Repeat(ord)

Spec == Init /\ [][Next]_vars

(***************************************************************************)
(* registry.Insert on its own: a registry is built from newRegistry by     *)
(* calls of Insert, the way Parse makes them.  Here call is the last call  *)
(* of Insert (the registry it was made on, the URI and the node) and res   *)
(* what it returned; v.registry is the registry the calls have built.      *)
(***************************************************************************)
\* The most nodes the arena of the registry is let grow to.
MaxInserts == 3

InsertURIs ==
  {EmptyURL, URL("", "/a"), URL("urn:example:foo", ""), URL("urn:example:bar", "")}

InsertNodes ==
  {ZeroSchema, [ZeroSchema EXCEPT !.Bool = [IsSet |-> TRUE, Value |-> TRUE]]}

\* r.Insert(uri, s)
CallInsert(uri, s) ==
  /\ Len(v.registry.arena) < MaxInserts
  /\ call' = [registry |-> v.registry, uri |-> uri, s |-> s]
  /\ res' = registryInsert(v.registry, uri, s)
  /\ v' = [v EXCEPT !.registry = registryInsert(v.registry, uri, s).registry]
  /\ UNCHANGED <<scenario, sealed, prev>>

NextInsert == \E uri \in InsertURIs, s \in InsertNodes : CallInsert(uri, s)

SpecInsert == Init /\ [][NextInsert]_vars

(***************************************************************************)
(* A third specification, of the registry under both of its mutators:      *)
(* Insert and PopulateRefs in any order.  One of the nodes holds a "$ref", *)
(* so that PopulateRefs has an arena node to write.                        *)
(***************************************************************************)
RefNode ==
  [ZeroSchema EXCEPT !.Ref.IsSet = TRUE, !.Ref.URI = URL("", "/a")]

CallPopulateRefs ==
  /\ Len(v.registry.arena) > 0
  /\ call' = [registry |-> v.registry]
  /\ res' = PopulateRefs(v.registry)
  /\ v' = [v EXCEPT !.registry = PopulateRefs(v.registry).registry]
  /\ UNCHANGED <<scenario, sealed, prev>>

NextRegistry ==
  \/ \E uri \in InsertURIs, s \in InsertNodes \cup {RefNode} : CallInsert(uri, s)
  \/ CallPopulateRefs

SpecRegistry == Init /\ [][NextRegistry]_vars

(***************************************************************************)
(* Properties.                                                             *)
(***************************************************************************)
\* C1: pseudo-execution contributes nothing to the error list that Validate
\* or ValidateURI returns: every returned error was reported outside a
\* pseudoExec, whatever maxErrors is.
C1_NoErrorFromPseudoExec ==
  res.err = "nil" => \A i \in 1..Len(res.pseudo) : ~res.pseudo[i]

\* C2: capping the number of errors does not change the verdict: when neither
\* evaluation fails, IsValid with maxErrors = N > 0 is IsValid with
\* maxErrors = 0 for the same schemas, URI and instance.
C2_CapKeepsVerdict ==
  res.err = "nil" /\ v.maxErrors > 0 =>
    LET all == ValidateURI([v EXCEPT !.maxErrors = 0], call.uri,
                           Current.instances[call.instance], call.ord)
    IN  all.err = "nil" => (IsValid(res.result) <=> IsValid(all.result))

\* C3: validating any instance against {"$ref": "#"} returns ErrStackOverflow,
\* for every maxStackDepth >= 0.
C3_SelfReferenceOverflows ==
  scenario # 0 /\ Current.schemas = <<Loop>> /\ res.err # "none" =>
    res.err = "ErrStackOverflow"

\* C4: a call for a URI that is not registered (Validate with no default
\* schema included) returns ErrNoSuchSchema, whatever the number of schemas
\* the validator was built from.
C4_UnregisteredIsNoSuchSchema ==
  res.err # "none" /\ call.uri \notin DOMAIN v.registry.schemas =>
    res.err = "ErrNoSuchSchema"

\* C5 as stated: two calls with the same validator, URI and instance return
\* the same error and the same error list, element for element.
C5_SameErrorList ==
  prev.err # "none" =>
    res.err = prev.err /\ res.result.Errors = prev.result.Errors

\* C5: with maxErrors = 0, two calls with the same validator, URI and instance
\* return the same error and error lists that are permutations of each other.
C5_SameErrorsUpToOrder ==
  prev.err # "none" /\ v.maxErrors = 0 =>
    LET a == res.result.Errors
        b == prev.result.Errors
        count(l, e) == Cardinality({i \in 1..Len(l) : l[i] = e})
    IN  /\ res.err = prev.err
        /\ Len(a) = Len(b)
        /\ \A i \in 1..Len(a) : count(a, a[i]) = count(b, a[i])

\* C5, its case: a repeated call with maxErrors = 0 returned the errors of
\* several members in another order.
C5_Reordered ==
  /\ prev.err = "nil"
  /\ v.maxErrors = 0
  /\ Len(res.result.Errors) >= 2
  /\ res.result.Errors # prev.result.Errors

\* C6: ValidationResult.Overflowed is true exactly when the evaluation was
\* aborted on the stack depth.
C6_OverflowedIffAborted ==
  res.err # "none" => (res.result.Overflowed <=> res.err = "ErrStackOverflow")

\* C7: building a validator either succeeds or returns ErrInvalidSchema or
\* ErrMissingURIs.
C7_ThreeBuildOutcomes ==
  sealed.err \in {"none", "nil", "ErrInvalidSchema", "ErrMissingURIs"}

\* C8: the URIs of an ErrMissingURIs are, in arena order, the fragment-less
\* targets of the $ref sites of the arena whose target document was not
\* supplied, one entry per site.
C8_OneEntryPerMissingSite ==
  sealed.err = "ErrMissingURIs" =>
    LET missing(s) ==
          s.Ref.IsSet /\ URL(s.Ref.URI.Base, "") \notin DOMAIN sealed.local.rawIndex
        sites == SelectSeq(sealed.local.arena, missing)
    IN  sealed.URIs = [i \in 1..Len(sites) |-> URL(sites[i].Ref.URI.Base, "")]

C10_LastWithoutIDIsDefault ==
  LET docs == Current.schemas
      lacking == {i \in 1..Len(docs) : ~(docs[i].k = "obj" /\ Has(docs[i].v, "$id"))}
      last == CHOOSE i \in lacking : \A j \in lacking : i >= j
  IN  scenario # 0 /\ sealed.err = "nil" /\ Cardinality(lacking) >= 2 =>
        /\ EmptyURL \in DOMAIN v.registry.schemas
        /\ \A uri \in DOMAIN v.registry.schemas :
             uri.Base = "" => v.registry.origins[v.registry.schemas[uri] + 1] = last

\* Every input schema of the scenario declares $id (and there is one).
AllDeclareID ==
  /\ scenario # 0
  /\ Len(Current.schemas) >= 1
  /\ \A i \in 1..Len(Current.schemas) :
       Current.schemas[i].k = "obj" /\ Has(Current.schemas[i].v, "$id")

Unresolvable(s) ==
  /\ s.Ref.IsSet
  /\ LET baseURI == URL(s.Ref.URI.Base, "")
         ptr == ptrNew(s.Ref.URI.Fragment)
     IN  \/ baseURI \notin DOMAIN sealed.local.rawIndex
         \/ ~ptr.ok
         \/ ~ptrEval(ptr.Tokens, Current.schemas[sealed.local.rawIndex[baseURI]]).ok

\* C12: in a validator built with nil error, every arena node with $ref holds
\* as target a valid arena index, the one the registry maps its target URI
\* to; when a $ref of the arena cannot be resolved, or seal returns any error,
\* the validator is left with the zero registry.
C12_SealedRefsResolved ==
  LET arena == v.registry.arena
      local == sealed.local.arena
  IN  /\ sealed.err = "nil" =>
           \A i \in 1..Len(arena) :
             arena[i].Ref.IsSet =>
               /\ arena[i].Ref.URI \in DOMAIN v.registry.schemas
               /\ arena[i].Ref.Schema = v.registry.schemas[arena[i].Ref.URI]
               /\ arenaInRange(v.registry, arena[i].Ref.Schema)
      /\ (scenario # 0 /\ \E i \in 1..Len(local) : Unresolvable(local[i])) =>
           sealed.err \notin {"none", "nil"}
      /\ sealed.err \notin {"none", "nil"} => v.registry = newRegistry

\* C12, its case: seal succeeded on schemas with several $refs, and a node
\* refers to a node that is not the first of the arena.
C12_RefsPopulated ==
  /\ sealed.err = "nil"
  /\ Cardinality({i \in 1..Len(v.registry.arena) : v.registry.arena[i].Ref.IsSet}) >= 2
  /\ \E i \in 1..Len(v.registry.arena) :
       v.registry.arena[i].Ref.IsSet /\ v.registry.arena[i].Ref.Schema > 0

\* C13: every returned ValidationError carries as URI the fragment-less
\* identifier of a schema document the validator was built from, also when
\* the validation was started with ValidateURI at a URI with a JSON Pointer
\* fragment.
C13_ErrorURIIsDocumentID ==
  res.err = "nil" =>
    \A i \in 1..Len(res.result.Errors) :
      /\ res.result.Errors[i].URI.Fragment = ""
      /\ res.result.Errors[i].URI \in DOMAIN sealed.local.rawIndex

RECURSIVE RefChain(_, _, _)
\* The number of $refs on the chain that starts at the node at index of the
\* registry r: 0 for a node without $ref, -1 when the chain does not end
\* within fuel references (it runs in a circle).
RefChain(r, index, fuel) ==
  IF ~GetIndex(r, index).Ref.IsSet THEN 0
  ELSE IF fuel = 0 THEN -1
  ELSE With(RefChain(r, GetIndex(r, index).Ref.Schema, fuel - 1),
            LAMBDA n : IF n < 0 THEN -1 ELSE n + 1)

\* C14: with maxStackDepth = N >= 1, validating against the head of an acyclic
\* chain of exactly N nested $refs does not return ErrStackOverflow, and
\* against a chain of N + 1 nested $refs it does.
C14_DepthIsRefsFollowed ==
  (res.err # "none" /\ v.maxStackDepth >= 1 /\ call.uri \in DOMAIN v.registry.schemas) =>
    LET n == RefChain(v.registry, v.registry.schemas[call.uri], Len(v.registry.arena))
    IN  /\ n = v.maxStackDepth => res.err = "nil"
        /\ n = v.maxStackDepth + 1 => res.err = "ErrStackOverflow"

\* C15: with maxErrors = N > 0 a returned result holds at most N errors; with
\* maxErrors = 0 no cap applies: the call returns what it returns under a cap
\* that no evaluation of the model reaches.
C15_AtMostMaxErrors ==
  /\ v.maxErrors > 0 => Len(res.result.Errors) <= v.maxErrors
  /\ (res.err # "none" /\ v.maxErrors = 0) =>
       LET far == ValidateURI([v EXCEPT !.maxErrors = 1000], call.uri,
                              Current.instances[call.instance], call.ord)
       IN  Len(far.result.Errors) < 1000 /\ res = far

\* C15, its case: a call under maxErrors = 1 returned one error where the
\* same call without a cap returns several.
C15_CapReached ==
  /\ res.err = "nil"
  /\ v.maxErrors = 1
  /\ Len(res.result.Errors) = 1
  /\ Len(ValidateURI([v EXCEPT !.maxErrors = 0], call.uri,
                     Current.instances[call.instance], call.ord).result.Errors) >= 2

C17_OverflowIsFatal ==
  /\ res.err = "ErrStackOverflow" =>
       res.result = [Errors |-> <<>>, Overflowed |-> FALSE]
  /\ (/\ scenario # 0
      /\ Current.schemas = <<NotLoop>>
      /\ v.maxStackDepth >= 1
      /\ res.err # "none") => res.err = "ErrStackOverflow"

\* C17, its case: the call returned ErrStackOverflow after its vm had
\* reported errors.
C17_OverflowAfterErrors ==
  /\ res.err = "ErrStackOverflow"
  /\ Len(Exec(newVM(v.registry, v.maxStackDepth, v.maxErrors, call.ord), call.uri,
              Current.instances[call.instance]).vm.errors.errors) >= 2

\* C18: when the schema a call starts at carries $ref together with other
\* keywords, and neither a cap nor an overflow ends the evaluation, the
\* errors returned are those of the referenced schema under the frame of the
\* reference, followed by those of the other keywords under the frame the
\* call started with.
C18_RefThenSiblings ==
  (/\ scenario # 0
   /\ res.err = "nil"
   /\ v.maxErrors = 0
   /\ call.uri \in DOMAIN v.registry.schemas
   /\ GetIndex(v.registry, v.registry.schemas[call.uri]).Ref.IsSet) =>
    LET node == GetIndex(v.registry, v.registry.schemas[call.uri])
        instance == Current.instances[call.instance]
        vm == newVM(v.registry, v.maxStackDepth, 0, call.ord)
        referenced ==
          execSchema(pushNewSchema(vm, node.Ref.BaseURI, node.Ref.Ptr),
                     GetIndex(v.registry, node.Ref.Schema), instance)
        siblings ==
          execSchema(pushNewSchema(vm, call.uri, ptrNew(call.uri.Fragment).Tokens),
                     [node EXCEPT !.Ref.IsSet = FALSE], instance)
    IN  res.result.Errors
          = referenced.vm.errors.errors \o siblings.vm.errors.errors

\* C18, its case: a call returned an error of the referenced schema and,
\* after it, an error of a sibling of the $ref.
C18_BothReported ==
  /\ scenario # 0
  /\ Current.schemas = <<RefBarBoolean, Bar>>
  /\ res.err = "nil"
  /\ res.result.Errors =
       << [InstancePath |-> <<>>, SchemaPath |-> <<"type">>,
           URI |-> URL("urn:example:bar", "")],
          [InstancePath |-> <<>>, SchemaPath |-> <<"type">>, URI |-> EmptyURL] >>

\* The name of the JSON type of an instance, as the "type" keyword spells it.
TypeName(instance) ==
  CASE instance.k = "null" -> "null"
    [] instance.k = "bool" -> "boolean"
    [] instance.k = "num" -> "number"
    [] instance.k = "str" -> "string"
    [] instance.k = "arr" -> "array"
    [] instance.k = "obj" -> "object"

\* Whether an instance is of one of the types named by the value of a "type"
\* keyword (a string or an array of strings): a number is of type "number",
\* and of type "integer" when it is integral.
OfOneOf(T, instance) ==
  LET names == IF T.k = "str" THEN {T.v} ELSE {T.v[i].v : i \in 1..Len(T.v)}
  IN  \/ TypeName(instance) \in names
      \/ instance.k = "num" /\ "integer" \in names /\ instance.v % Unit = 0

\* C19: against a schema whose only keyword is "type", Validate returns no
\* error for an instance of one of the types named, and for any other
\* instance exactly one error, at schema path /type and the path of the
\* instance.
C19_TypeOnly ==
  (/\ scenario # 0
   /\ Len(Current.schemas) = 1
   /\ Current.schemas[1].k = "obj"
   /\ DOMAIN Current.schemas[1].v = {"type"}
   /\ sealed.err = "nil"
   /\ call.uri = EmptyURL
   /\ res.err # "none") =>
    /\ res.err = "nil"
    /\ IF OfOneOf(Current.schemas[1].v["type"], Current.instances[call.instance])
       THEN res.result.Errors = <<>>
       ELSE /\ Len(res.result.Errors) = 1
            /\ res.result.Errors[1].SchemaPath = <<"type">>
            /\ res.result.Errors[1].InstancePath = <<>>

\* C19, its case: a number that is not integral was rejected by a "type"
\* that names integer and not number.
C19_FractionRejected ==
  /\ scenario # 0
  /\ Current.schemas = <<OfTypes(<<"integer", "string">>)>>
  /\ call.uri = EmptyURL
  /\ res.err = "nil"
  /\ Current.instances[call.instance].k = "num"
  /\ Len(res.result.Errors) = 1

\* C20: an Insert under a URI that is registered returns the index the URI
\* has and leaves the arena and the URI map as they were; under a new URI it
\* appends the node at index len(arena), maps the URI to that index and
\* returns it.  Either way the URIs registered before keep their indices and
\* the nodes inserted before stay where they were.
C20_InsertDeduplicates ==
  call # NoCall =>
    LET before == call.registry
        after == res.registry
    IN  /\ v.registry = after
        /\ \A uri \in DOMAIN before.schemas :
             after.schemas[uri] = before.schemas[uri]
        /\ IF call.uri \in DOMAIN before.schemas
           THEN /\ res.index = before.schemas[call.uri]
                /\ after.arena = before.arena
                /\ after.schemas = before.schemas
           ELSE /\ res.index = Len(before.arena)
                /\ after.arena = Append(before.arena, call.s)
                /\ DOMAIN after.schemas = DOMAIN before.schemas \cup {call.uri}
                /\ after.schemas[call.uri] = Len(before.arena)

\* C20, its case: a node was inserted under a URI registered for another
\* node, in a registry of several nodes.
C20_NodeDiscarded ==
  /\ call # NoCall
  /\ call.uri \in DOMAIN call.registry.schemas
  /\ Len(call.registry.arena) >= 2
  /\ call.s # GetIndex(call.registry, res.index)
  /\ res.index < Len(call.registry.arena) - 1

\* C21: a call of Validate or ValidateURI, whatever it returns, leaves the
\* registry as seal installed it: the vm ends with the URI map and the arena
\* it was given, and the Validator still holds them.
C21_RegistryImmutable ==
  (scenario # 0 /\ sealed.err = "nil" /\ res.err # "none") =>
    /\ v.registry = sealed.local
    /\ Exec(newVM(v.registry, v.maxStackDepth, v.maxErrors, call.ord), call.uri,
            Current.instances[call.instance]).vm.registry = sealed.local

\* C21, its case: a call that followed $refs through a registry of several
\* nodes and ended in ErrStackOverflow.
C21_CalledThroughRefs ==
  /\ scenario # 0
  /\ sealed.err = "nil"
  /\ res.err = "ErrStackOverflow"
  /\ Len(v.registry.arena) >= 3
  /\ v.registry = sealed.local

\* C22: the number of frames on the schema stack of the vm is at most
\* maxStackDepth, for every maxStackDepth >= 0, the frame that Exec pushes
\* included; stated at the point where Exec returns, with or without error.
C22_FramesWithinDepth ==
  (scenario # 0 /\ sealed.err = "nil" /\ res.err # "none") =>
    Len(Exec(newVM(v.registry, v.maxStackDepth, v.maxErrors, call.ord), call.uri,
             Current.instances[call.instance]).vm.stack.schemas) <= v.maxStackDepth

\* C23: with maxStackDepth >= 1, a call for a registered URI returns, with a
\* result or with ErrStackOverflow, also when the $refs run in a circle
\* through not, if, anyOf, oneOf, contains or allOf: the recursion is never
\* one that only the cap of the model stops.
C23_ValidationReturns ==
  (/\ scenario # 0
   /\ sealed.err = "nil"
   /\ v.maxStackDepth >= 1
   /\ res.err # "none"
   /\ call.uri \in DOMAIN v.registry.schemas) =>
    res.err \in {"nil", "ErrStackOverflow"}

\* C23, its case: a circle of $refs through a pseudoExec over the elements
\* of an array ended in ErrStackOverflow.
C23_CircleThroughContains ==
  /\ scenario # 0
  /\ Current.schemas = <<ContainsLoop>>
  /\ v.maxStackDepth >= 2
  /\ res.err = "ErrStackOverflow"

\* C24: seal terminates for every finite list of input documents: a pass of
\* its loop either registers a URI that was not registered before or ends
\* the loop, so the loop never goes on without end.
C24_SealTerminates ==
  scenario # 0 => sealed.err # "unbounded"

\* C25: after any sequence of registry.Insert and registry.PopulateRefs calls
\* the URI map is a bijection between the registered URIs and the indices
\* 0..len(arena)-1 of the arena: every node of the arena has exactly one URI
\* that maps to it, and no two URIs map to one index.
C25_URIMapIsBijection ==
  LET r == v.registry
  IN  /\ {r.schemas[uri] : uri \in DOMAIN r.schemas} = 0..(Len(r.arena) - 1)
      /\ \A a, b \in DOMAIN r.schemas : r.schemas[a] = r.schemas[b] => a = b

\* C25, its case: PopulateRefs has written the index of a "$ref" into a node
\* of an arena of several nodes, and an Insert under a registered URI has
\* left the arena as it was.
C25_InsertedAndPopulated ==
  /\ Len(v.registry.arena) >= 2
  /\ \E i \in 1..Len(v.registry.arena) :
       /\ v.registry.arena[i].Ref.IsSet
       /\ v.registry.arena[i].Ref.Schema > 0
  /\ "uri" \in DOMAIN call
  /\ call.uri \in DOMAIN call.registry.schemas

\* The vm as it stands when execSchema is entered somewhere inside the last
\* call: the frame of the call with a token on it, and a token on the
\* instance stack.
EntryVM ==
  pushInstanceToken(
    pushSchemaToken(
      pushNewSchema(newVM(v.registry, v.maxStackDepth, v.maxErrors, call.ord),
                    call.uri, <<"properties">>),
      "a"),
    "a")

\* The stack of the vm that r holds is the stack of EntryVM, unless r holds
\* an error.
StackRestored(r) == r.err = "nil" => r.vm.stack = EntryVM.stack

\* C26: whenever execSchema returns without error, the instance tokens, the
\* number of schema frames and the tokens of the top frame are what they
\* were at entry, and likewise when pseudoExec returns without error; here
\* for every node of the arena, run on the instance of the last call.
C26_StackRestored ==
  (scenario # 0 /\ sealed.err = "nil" /\ res.err # "none") =>
    \A index \in 0..(Len(v.registry.arena) - 1) :
      /\ StackRestored(execSchema(EntryVM, GetIndex(v.registry, index),
                                  Current.instances[call.instance]))
      /\ StackRestored(pseudoExec(EntryVM, GetIndex(v.registry, index),
                                  Current.instances[call.instance]))

\* C26, its case: execSchema went through a "$ref" and through the keywords
\* beside it, reported errors on the way, returned without error and left
\* the stack as it found it.
C26_ReturnedThroughRef ==
  /\ scenario # 0 /\ sealed.err = "nil" /\ res.err = "nil"
  /\ v.maxStackDepth >= 2
  /\ \E index \in 0..(Len(v.registry.arena) - 1) :
       /\ GetIndex(v.registry, index).Ref.IsSet
       /\ With(execSchema(EntryVM, GetIndex(v.registry, index),
                          Current.instances[call.instance]),
               LAMBDA r : /\ r.err = "nil"
                          /\ Len(r.vm.errors.errors) >= 2
                          /\ r.vm.stack = EntryVM.stack)

\* C27: all the nodes registered under one base URI are compiled from one
\* input document: the node at the root of the base and every node at a
\* JSON-Pointer fragment of it, whether the structural walk inserted it or
\* the loop of seal found it through a "$ref".
C27_OneDocumentPerBase ==
  (scenario # 0 /\ sealed.err = "nil") =>
    \A a, b \in DOMAIN v.registry.schemas :
      a.Base = b.Base =>
        v.registry.origins[v.registry.schemas[a] + 1]
          = v.registry.origins[v.registry.schemas[b] + 1]

\* The lists a and b hold the same entries the same number of times.
SameMultiset(a, b) ==
  /\ Len(a) = Len(b)
  /\ \A i \in 1..Len(a) :
       Cardinality({j \in 1..Len(a) : a[j] = a[i]})
         = Cardinality({j \in 1..Len(b) : b[j] = a[i]})

\* C28: with maxErrors = 0 the errors reported, as a multiset, and the error
\* returned (ErrStackOverflow or none) do not depend on the order in which
\* the members of an object, the patternProperties and the dependencies are
\* visited: whatever order the maps are ranged over in, the call returns
\* what the last call returned, up to the order of the errors.
C28_OrderIndependent ==
  (scenario # 0 /\ sealed.err = "nil" /\ res.err # "none" /\ v.maxErrors = 0) =>
    \A ord \in Orders(Current.keys) :
      With(ValidateURI(v, call.uri, Current.instances[call.instance], ord),
           LAMBDA other :
             /\ other.err = res.err
             /\ other.result.Overflowed = res.result.Overflowed
             /\ SameMultiset(other.result.Errors, res.result.Errors))

\* C28, its case: two dependencies both failed, and ranged over in another
\* order the call returns the two errors the other way round.
C28_DependenciesReordered ==
  /\ scenario # 0 /\ sealed.err = "nil" /\ res.err = "nil" /\ v.maxErrors = 0
  /\ Current.schemas = <<Deps>>
  /\ Len(res.result.Errors) = 2
  /\ \E ord \in Orders(Current.keys) :
       With(ValidateURI(v, call.uri, Current.instances[call.instance], ord),
            LAMBDA other : /\ other.result.Errors # res.result.Errors
                           /\ SameMultiset(other.result.Errors, res.result.Errors))

\* The errors execSchema reports for the schema at index under the token
\* branch, from the frame Exec pushes for the URI of the last call.
BranchErrors(index, branch) ==
  execSchema(pushSchemaToken(
               pushNewSchema(newVM(v.registry, v.maxStackDepth, v.maxErrors, call.ord),
                             call.uri, <<>>),
               branch),
             GetIndex(v.registry, index),
             Current.instances[call.instance]).vm.errors.errors

\* The "if" subschema at index accepts the instance of the last call.
IfAccepts(index) ==
  ~pseudoExec(pushNewSchema(newVM(v.registry, v.maxStackDepth, 0, call.ord),
                            call.uri, <<>>),
              GetIndex(v.registry, index),
              Current.instances[call.instance]).hasErrors

\* C29: of "if", "then" and "else" the errors reported are exactly those of
\* "then", under /then, when the "if" subschema accepts the instance, and
\* exactly those of "else", under /else, when it rejects it; the "if"
\* subschema and the branch not chosen report nothing, nor do "then" and
\* "else" with no "if" beside them.
C29_ChosenBranchOnly ==
  (/\ scenario # 0 /\ sealed.err = "nil" /\ res.err = "nil"
   /\ Current.schemas \in {<<IfDoc>>, <<ThenElse>>}) =>
    With(GetIndex(v.registry, v.registry.schemas[call.uri]),
         LAMBDA root :
           res.result.Errors =
             IF ~root.If.IsSet THEN <<>>
             ELSE IF IfAccepts(root.If.Schema)
             THEN (IF root.Then.IsSet THEN BranchErrors(root.Then.Schema, "then")
                   ELSE <<>>)
             ELSE (IF root.Else.IsSet THEN BranchErrors(root.Else.Schema, "else")
                   ELSE <<>>))

\* C30: a keyword that takes a natural number is accepted at seal exactly
\* when its value is a number that is not negative and whose fractional part
\* is within epsilon of zero; any other value, a negative number above all,
\* makes seal return ErrInvalidSchema.
C30_NaturalAccepted ==
  \A kw \in DOMAIN NaturalField, n \in NaturalValues :
    (scenario # 0 /\ Current.schemas = <<Natural(kw, n)>>) =>
      IF n >= 0 /\ n % Unit <= epsilon
      THEN sealed.err = "nil"
      ELSE sealed.err = "ErrInvalidSchema"
====
